---------------------------- MODULE Spec2Model ----------------------------
(***************************************************************************)
(* Model of the experience-timeline widget of github-widgets: the request  *)
(* handler's CSV validation and generateExperienceTimeline (interval       *)
(* parsing, time scale, sort, greedy lane allocation, canvas sizing, date  *)
(* labels, duration bars and animation delays).                            *)
(*                                                                         *)
(* Conventions                                                             *)
(*  - a string is a sequence of one-character strings;                     *)
(*  - an instant is a whole number of days since 1970-01-01 UTC (the       *)
(*    code's milliseconds divided by 86400000; every parsed date is a      *)
(*    midnight, and the clock reading `now' is taken at day granularity);  *)
(*  - a JavaScript value that can be NaN, undefined or null is a record    *)
(*    with a `type' field (Num, NaN, Undefined, Null below);               *)
(*  - a pixel coordinate produced by the d3 scale is an exact rational     *)
(*    [num, den] with den > 0 (floating point rounding is not modelled).   *)
(***************************************************************************)
EXTENDS Integers, Sequences, FiniteSets, TLC

VARIABLES
    rows,               \* the CSV data rows (fields as strings), in input order
    totalDurationOpt,   \* animationTotalDuration as the query or the caller gives it
    now,                \* the clock reading `new Date()' of the render
    pc,                 \* position of the request
    items,              \* the generator's items array
    xScale,             \* the d3 time scale: domain and range
    laneLastEnd,        \* last end per open lane, in lane creation order
    canvas,             \* laneCount, contentHeight, height, baselineY
    labels,             \* date labels considered, in processing order
    drawnLabelXCoords,  \* x of the date labels drawn so far
    bars,               \* per item geometry and animation delay, in processing order
    timing,             \* the stage durations and delays of the style sheet
    outcome,            \* what the caller gets
    run,                \* 1 for the first render of the input, 2 for the repeated one
    prev,               \* the output of the first render, kept for comparison
    embedLogos,         \* the embedLogos option
    logoData,           \* per item: the data URI of its logo, null, or a fetch pending
    svgGroups,          \* what has been appended to the svg so far
    logoImages,         \* the logo images drawn, with their clip paths
    settled,            \* the item ids whose fetch has settled, in order of completion
    lockedUser,         \* API: process.env.LOCK_GITHUB_USER
    githubToken,        \* API: whether process.env.GITHUB_TOKEN is set
    cache,              \* API: the LRU cache, least recently used entry first
    inflight,           \* API: requests awaiting their generator
    response,           \* API: the response sent last, with its request
    served,             \* API: requests received so far
    points,             \* activity chart: the points of the line
    maxCount,           \* activity chart: the largest count
    targetTicks,        \* activity chart: the tick count asked for
    rawPathLength,      \* activity chart: what computePathLength returned
    pathLength,         \* activity chart: the dash length of the line
    yTicks,             \* activity chart: what niceYTicks returned last
    prevTicks,          \* activity chart: what niceYTicks returned the call before
    ticksCalls          \* activity chart: calls of niceYTicks so far

timelineVars == <<rows, totalDurationOpt, now, pc, items, xScale, laneLastEnd, canvas,
                  labels, drawnLabelXCoords, bars, timing, outcome, run, prev,
                  embedLogos, logoData, svgGroups, logoImages, settled>>
activityVars == <<points, maxCount, targetTicks, rawPathLength, pathLength, yTicks,
                  prevTicks, ticksCalls>>
apiVars == <<lockedUser, githubToken, cache, inflight, response, served>>
vars == <<timelineVars, activityVars, apiVars>>

-----------------------------------------------------------------------------
(* JavaScript values *)

Num(n) == [type |-> "number", val |-> n]
NaN == [type |-> "NaN"]
Undefined == [type |-> "undefined"]
Null == [type |-> "null"]
IsNum(x) == x.type = "number"

\* a + b on numbers; undefined + 1 is NaN
JSAdd(a, b) == IF IsNum(a) /\ IsNum(b) THEN Num(a.val + b.val) ELSE NaN

\* a * k and a / k (k a positive integer dividing a)
JSTimes(a, k) == IF IsNum(a) THEN Num(a.val * k) ELSE NaN
JSHalf(a) == IF IsNum(a) THEN Num(a.val \div 2) ELSE NaN

\* Math.max: NaN as soon as one argument is NaN
MathMax(a, b) ==
    IF IsNum(a) /\ IsNum(b) THEN (IF a.val >= b.val THEN a ELSE b) ELSE NaN

\* Math.ceil(a / 2)
MathCeilHalf(a) == IF IsNum(a) THEN Num((a.val + 1) \div 2) ELSE NaN

-----------------------------------------------------------------------------
(* Strings *)

Digits == {"0", "1", "2", "3", "4", "5", "6", "7", "8", "9"}

DigitVal(c) ==
    CASE c = "0" -> 0 [] c = "1" -> 1 [] c = "2" -> 2 [] c = "3" -> 3
      [] c = "4" -> 4 [] c = "5" -> 5 [] c = "6" -> 6 [] c = "7" -> 7
      [] c = "8" -> 8 [] c = "9" -> 9

RECURSIVE TrimStart(_)
TrimStart(s) == IF s # <<>> /\ Head(s) = " " THEN TrimStart(Tail(s)) ELSE s

RECURSIVE TrimEnd(_)
TrimEnd(s) ==
    IF s # <<>> /\ s[Len(s)] = " " THEN TrimEnd(SubSeq(s, 1, Len(s) - 1)) ELSE s

\* String.prototype.trim
Trim(s) == TrimEnd(TrimStart(s))

\* String.prototype.split("-"): the pieces between the separators
RECURSIVE SplitFrom(_, _, _)
SplitFrom(s, i, piece) ==
    IF i > Len(s) THEN <<piece>>
    ELSE IF s[i] = "-" THEN <<piece>> \o SplitFrom(s, i + 1, <<>>)
    ELSE SplitFrom(s, i + 1, Append(piece, s[i]))

Split(s) == SplitFrom(s, 1, <<>>)

\* value of the longest prefix of digits, acc the value read so far
RECURSIVE DigitPrefix(_, _, _)
DigitPrefix(s, acc, seen) ==
    IF s # <<>> /\ Head(s) \in Digits
    THEN DigitPrefix(Tail(s), 10 * acc + DigitVal(Head(s)), TRUE)
    ELSE IF seen THEN Num(acc) ELSE NaN

\* parseInt(s, 10) on a string without sign: leading blanks are skipped, the
\* digits up to the first other character are read, NaN when there is none
ParseInt(s) == DigitPrefix(TrimStart(s), 0, FALSE)

-----------------------------------------------------------------------------
(* Dates *)

\* days from 1970-01-01 to the first of month m (1..12) of year y,
\* proleptic Gregorian calendar
DaysFromCivil(y, m) ==
    LET yy == IF m <= 2 THEN y - 1 ELSE y
        era == yy \div 400
        yoe == yy - era * 400
        mp == IF m > 2 THEN m - 3 ELSE m + 9
        doy == (153 * mp + 2) \div 5
        doe == yoe * 365 + yoe \div 4 - yoe \div 100 + doy
    IN  era * 146097 + doe - 719468

\* Date.UTC(y, m, d) in days: m is a month index that may lie outside 0..11
\* and d a day that may lie outside the month; both carry over. A year in
\* 0..99 means 1900 + year. NaN when an argument is NaN.
DateUTC(y, m, d) ==
    IF IsNum(y) /\ IsNum(m) /\ IsNum(d)
    THEN LET fullYear == IF y.val >= 0 /\ y.val <= 99 THEN 1900 + y.val ELSE y.val
             ym == fullYear * 12 + m.val
         IN  Num(DaysFromCivil(ym \div 12, (ym % 12) + 1) + d.val - 1)
    ELSE NaN

\* new Date(time)
NewDate(time) == [type |-> "Date", time |-> time]

\* a parseYMD that reads the empty string as the current date
parseYMDEmptyAsNow(s) ==
    IF s = <<>> THEN NewDate(Num(now))
    ELSE LET parts == Split(s)
             y == ParseInt(parts[1])
             m == IF Len(parts) >= 2 /\ parts[2] # <<>>
                  THEN JSAdd(ParseInt(parts[2]), Num(-1)) ELSE Num(0)
             d == IF Len(parts) >= 3 /\ parts[3] # <<>>
                  THEN ParseInt(parts[3]) ELSE Num(1)
         IN  NewDate(DateUTC(y, m, d))

parseYMD(s) ==
    IF s = <<>> THEN Null
    ELSE LET parts == Split(s)
             y == ParseInt(parts[1])
             m == IF Len(parts) >= 2 /\ parts[2] # <<>>
                  THEN JSAdd(ParseInt(parts[2]), Num(-1)) ELSE Num(0)
             d == IF Len(parts) >= 3 /\ parts[3] # <<>>
                  THEN ParseInt(parts[3]) ELSE Num(1)
         IN  NewDate(DateUTC(y, m, d))


-----------------------------------------------------------------------------
(* Rationals [num, den], den > 0 *)

Rat(n, d) == [num |-> n, den |-> d]
RatOfInt(n) == Rat(n, 1)

RECURSIVE GCD(_, _)
GCD(a, b) == IF b = 0 THEN a ELSE GCD(b, a % b)

\* the same rational in lowest terms
Reduce(r) ==
    LET g == GCD(IF r.num < 0 THEN -r.num ELSE r.num, r.den)
    IN  Rat(r.num \div g, r.den \div g)

RatLess(a, b) == a.num * b.den < b.num * a.den
RatLeq(a, b) == a.num * b.den <= b.num * a.den
RatEq(a, b) == a.num * b.den = b.num * a.den
RatAdd(a, b) ==
    IF a.den = b.den THEN Rat(a.num + b.num, a.den)
    ELSE Reduce(Rat(a.num * b.den + b.num * a.den, a.den * b.den))
RatSub(a, b) == RatAdd(a, Rat(-b.num, b.den))
RatAbs(a) == IF a.num < 0 THEN Rat(-a.num, a.den) ELSE a
RatMax(a, b) == IF RatLess(a, b) THEN b ELSE a
RatMin(a, b) == IF RatLess(b, a) THEN b ELSE a
RatTimesInt(a, k) == Reduce(Rat(a.num * k, a.den))
RatDivInt(a, k) == Reduce(Rat(a.num, a.den * k))
RatMul(a, b) == Reduce(Rat(a.num * b.num, a.den * b.den))
\* Math.ceil of a rational with den > 0
RatCeil(a) == -((-a.num) \div a.den)

-----------------------------------------------------------------------------
(* Options of generateExperienceTimeline: the defaults *)

width == 1200
heightPerLane == 80
marginTop == 100
marginRight == 30
marginBottom == 30
marginLeft == 30
animationTotalDuration == 5
includeStartDate == TRUE
includeEndDate == TRUE

nodeRadius == 9
labelProximityThreshold == 20
minBarWidth == 6
lineHeight == 16

-----------------------------------------------------------------------------
(* validateExperienceCSV, on the data rows of a CSV with the required header *)

IsDigits(s, from, to) == \A i \in from..to : s[i] \in Digits

\* /^\d{4}(-\d{2}(-\d{2})?)?$/.test(s)
dateRegexTest(s) ==
    \/ Len(s) = 4 /\ IsDigits(s, 1, 4)
    \/ Len(s) = 7 /\ IsDigits(s, 1, 4) /\ s[5] = "-" /\ IsDigits(s, 6, 7)
    \/ Len(s) = 10 /\ IsDigits(s, 1, 4) /\ s[5] = "-" /\ IsDigits(s, 6, 7)
                   /\ s[8] = "-" /\ IsDigits(s, 9, 10)

\* r[f] || "": the field, or the empty string when the row has no such field
Field(r, f) == IF f \in DOMAIN r THEN r[f] ELSE <<>>

\* a line of the CSV text with nothing on it; d3.csvParse makes of it a row
\* whose first column is empty and whose other columns are absent
IsBlankLine(r) == DOMAIN r = {"company"} /\ Trim(r.company) = <<>>

\* the check of one data row: "ok" or the error thrown
validateRow(r) ==
    LET company == Trim(r.company)
        start == Trim(r.start)
        end == Trim(r.end)
    IN  IF company = <<>> THEN "company is required"
        ELSE IF start = <<>> THEN "start date is required"
        ELSE IF ~dateRegexTest(start) THEN "start date must be in format"
        ELSE IF end # <<>> /\ ~dateRegexTest(end) THEN "end date must be in format"
        ELSE "ok"

\* "ok", or the message of the first error in row order
validateExperienceCSV(rs) ==
    LET dataRows == SelectSeq(rs, LAMBDA r : ~IsBlankLine(r))
    IN  IF Len(rs) = 0 THEN "CSV must contain at least a header and one data row"
        ELSE IF Len(dataRows) = 0 THEN "CSV must contain at least one experience entry"
        ELSE IF \E i \in 1..Len(dataRows) : validateRow(dataRows[i]) # "ok"
        THEN LET i == CHOOSE k \in 1..Len(dataRows) :
                        /\ validateRow(dataRows[k]) # "ok"
                        /\ \A j \in 1..(k - 1) : validateRow(dataRows[j]) = "ok"
             IN  validateRow(dataRows[i])
        ELSE "ok"

-----------------------------------------------------------------------------
(* generateExperienceTimeline: items *)

\* the item of row r, the i-th row counted from 1
MakeItem(r, i) ==
    LET startRaw == Trim(Field(r, "start"))
        endRaw == Trim(Field(r, "end"))
    IN  [id |-> i - 1,
         start |-> parseYMD(startRaw),
         end |-> IF endRaw # <<>> THEN parseYMD(endRaw) ELSE Null,
         logo |-> Trim(Field(r, "logo")),
         startRaw |-> startRaw,
         endRaw |-> endRaw]

\* the test that makes rows.map throw: !start || Number.isNaN(start.getTime())
InvalidStart(it) == it.start = Null \/ it.start.time = NaN

\* the items of the rows from the i-th on
RECURSIVE MapRows(_, _)
MapRows(rs, i) ==
    IF i > Len(rs) THEN <<>> ELSE <<MakeItem(rs[i], i)>> \o MapRows(rs, i + 1)

\* rows.map(...): the items in input order, or the first row (from 1) that throws
ParseItems(rs) ==
    LET its == MapRows(rs, 1)
    IN  IF \E i \in 1..Len(rs) : InvalidStart(its[i])
        THEN [ok |-> FALSE,
              row |-> CHOOSE i \in 1..Len(rs) :
                        /\ InvalidStart(its[i])
                        /\ \A j \in 1..(i - 1) : ~InvalidStart(its[j])]
        ELSE [ok |-> TRUE, items |-> its]

StartTime(it) == it.start.time.val
\* (it.end || now).getTime()
EndOrNow(it, t) == IF it.end = Null THEN t ELSE it.end.time.val

-----------------------------------------------------------------------------
(* Time scale *)

SeqMin(f) == CHOOSE v \in {f[i] : i \in DOMAIN f} : \A i \in DOMAIN f : v <= f[i]
SeqMax(f) == CHOOSE v \in {f[i] : i \in DOMAIN f} : \A i \in DOMAIN f : v >= f[i]

\* d3.min and d3.max of a sequence of numbers: undefined when it is empty
D3Min(f) == IF Len(f) = 0 THEN Undefined ELSE Num(SeqMin(f))
D3Max(f) == IF Len(f) = 0 THEN Undefined ELSE Num(SeqMax(f))

minTime(its) == D3Min([i \in 1..Len(its) |-> StartTime(its[i])])
maxTime(its, t) == D3Max([i \in 1..Len(its) |-> EndOrNow(its[i], t)])

\* d3.scaleTime().domain([minTime, maxTime]).range([margin.left, width - margin.right])
ScaleTime(its, t) ==
    [d0 |-> minTime(its), d1 |-> maxTime(its, t),
     r0 |-> marginLeft, r1 |-> width - marginRight]

\* a scale that interpolates without looking at the width of the domain
xScaleAtUnguarded(scale, t) ==
    LET d0 == scale.d0.val
        d1 == scale.d1.val
        w == d1 - d0
        n == scale.r0 * w + (t - d0) * (scale.r1 - scale.r0)
    IN  IF w >= 0 THEN Rat(n, w) ELSE Rat(-n, -w)

\* xScale(t) for a scale whose domain is made of numbers: d3 interpolates
\* linearly and does not clamp; a domain of zero width maps every instant to
\* the middle of the range (d3 normalize: constant 0.5); a domain given in
\* descending order is interpolated as given
xScaleAt(scale, t) ==
    LET d0 == scale.d0.val
        d1 == scale.d1.val
        w == d1 - d0
        n == scale.r0 * w + (t - d0) * (scale.r1 - scale.r0)
    IN  IF w = 0 THEN Rat(scale.r0 + scale.r1, 2)
        ELSE IF w > 0 THEN Rat(n, w)
        ELSE Rat(-n, -w)

-----------------------------------------------------------------------------
(* Sort and lane allocation *)

\* a comparator that orders the starts descending
CompareStartDescending(a, b, t) ==
    IF StartTime(a) # StartTime(b) THEN StartTime(b) - StartTime(a)
    ELSE EndOrNow(b, t) - EndOrNow(a, t)

\* a comparator that breaks ties by ascending end
CompareEndAscending(a, b, t) ==
    IF StartTime(a) # StartTime(b) THEN StartTime(a) - StartTime(b)
    ELSE EndOrNow(a, t) - EndOrNow(b, t)

\* the comparator of items.sort: negative when a goes first
Compare(a, b, t) ==
    IF StartTime(a) # StartTime(b) THEN StartTime(a) - StartTime(b)
    ELSE EndOrNow(b, t) - EndOrNow(a, t)

\* x inserted behind every element that does not have to follow it
RECURSIVE InsertSorted(_, _, _)
InsertSorted(sorted, x, t) ==
    IF sorted = <<>> THEN <<x>>
    ELSE IF Compare(sorted[Len(sorted)], x, t) <= 0 THEN Append(sorted, x)
    ELSE Append(InsertSorted(SubSeq(sorted, 1, Len(sorted) - 1), x, t),
                sorted[Len(sorted)])

\* Array.prototype.sort with the comparator: a stable sort
RECURSIVE SortFrom(_, _, _, _)
SortFrom(its, k, sorted, t) ==
    IF k > Len(its) THEN sorted
    ELSE SortFrom(its, k + 1, InsertSorted(sorted, its[k], t), t)

SortItems(its, t) == SortFrom(its, 1, <<>>, t)

\* an inner loop that takes a lane with laneLastEnd[li] >= s
FirstFreeLaneInverted(lastEnd, s) ==
    IF \E li \in 1..Len(lastEnd) : lastEnd[li] >= s
    THEN (CHOOSE li \in 1..Len(lastEnd) :
            /\ lastEnd[li] >= s
            /\ \A lj \in 1..(li - 1) : ~(lastEnd[lj] >= s)) - 1
    ELSE -1

\* an inner loop that takes a lane only when laneLastEnd[li] < s
FirstFreeLaneStrict(lastEnd, s) ==
    IF \E li \in 1..Len(lastEnd) : lastEnd[li] < s
    THEN (CHOOSE li \in 1..Len(lastEnd) :
            /\ lastEnd[li] < s
            /\ \A lj \in 1..(li - 1) : ~(lastEnd[lj] < s)) - 1
    ELSE -1

\* the inner loop: the first lane (from 0) with laneLastEnd[li] <= s, or -1
FirstFreeLane(lastEnd, s) ==
    IF \E li \in 1..Len(lastEnd) : lastEnd[li] <= s
    THEN (CHOOSE li \in 1..Len(lastEnd) :
            /\ lastEnd[li] <= s
            /\ \A lj \in 1..(li - 1) : ~(lastEnd[lj] <= s)) - 1
    ELSE -1

\* the loop over the items from the k-th on: items with their lane, and laneLastEnd
RECURSIVE AllocateFrom(_, _, _, _)
AllocateFrom(its, k, lastEnd, t) ==
    IF k > Len(its) THEN [items |-> its, laneLastEnd |-> lastEnd]
    ELSE LET it == its[k]
             s == StartTime(it)
             e == EndOrNow(it, t)
             found == FirstFreeLane(lastEnd, s)
             assigned == IF found = -1 THEN Len(lastEnd) ELSE found
             newLastEnd == IF found = -1 THEN Append(lastEnd, e)
                           ELSE [lastEnd EXCEPT ![found + 1] = e]
             placed == [lane |-> assigned] @@ it
         IN  AllocateFrom([its EXCEPT ![k] = placed], k + 1, newLastEnd, t)

\* an allocation that goes on from the lanes left by the previous call
AllocateLanesShared(its, t) == AllocateFrom(its, 1, laneLastEnd, t)

AllocateLanes(its, t) == AllocateFrom(its, 1, <<>>, t)

-----------------------------------------------------------------------------
(* Canvas *)

\* laneCount, contentHeight, height and baselineY, as JavaScript numbers
Canvas(its) ==
    LET maxLane == D3Max([i \in 1..Len(its) |-> its[i].lane])
        laneCount == MathMax(Num(1), JSAdd(maxLane, Num(1)))
        contentHeight == JSTimes(JSTimes(MathCeilHalf(laneCount), heightPerLane), 2)
    IN  [laneCount |-> laneCount,
         contentHeight |-> contentHeight,
         height |-> JSAdd(Num(marginTop + marginBottom), contentHeight),
         baselineY |-> JSAdd(Num(marginTop), JSHalf(contentHeight))]

\* a lane to Y that sends the odd lanes down and the even lanes up
laneToYInverted(lane, baselineY) ==
    IF lane = 0 THEN baselineY
    ELSE LET pairIndex == (lane + 1) \div 2
             isUp == lane % 2 = 0
             offset == pairIndex * heightPerLane
         IN  IF isUp THEN baselineY - offset ELSE baselineY + offset

\* a lane to Y whose offset grows with the lane index, not with the pair index
laneToYUnpaired(lane, baselineY) ==
    IF lane = 0 THEN baselineY
    ELSE LET isUp == lane % 2 = 1
             offset == lane * heightPerLane
         IN  IF isUp THEN baselineY - offset ELSE baselineY + offset

\* a lane to Y that puts every lane above the baseline
laneToYAllUp(lane, baselineY) ==
    IF lane = 0 THEN baselineY
    ELSE LET pairIndex == (lane + 1) \div 2
             offset == pairIndex * heightPerLane
         IN  baselineY - offset

\* helper: lane index to Y coordinate
laneToY(lane, baselineY) ==
    IF lane = 0 THEN baselineY
    ELSE LET pairIndex == (lane + 1) \div 2
             isUp == lane % 2 = 1
             offset == pairIndex * heightPerLane
         IN  IF isUp THEN baselineY - offset ELSE baselineY + offset


-----------------------------------------------------------------------------
(* Animation timing *)

\* T is the animationTotalDuration of the call, a rational number of seconds
baselineDuration(T) == Reduce(Rat(T.num * 15, T.den * 100))
datesDuration(T) == Reduce(Rat(T.num * 10, T.den * 100))
jobsDuration(T) == Reduce(Rat(T.num * 75, T.den * 100))
\* a date-label stage that starts with the baseline stage
datesDelayAtStart(T) == RatOfInt(0)
datesDelay(T) == baselineDuration(T)
jobsStartTime(T) == RatAdd(datesDelay(T), datesDuration(T))
\* a slot that is the whole items stage
durationPerJobWhole(T, n) == jobsDuration(T)
\* jobsDuration / Math.max(1, items.length)
durationPerJob(T, n) == RatDivInt(jobsDuration(T), IF n >= 1 THEN n ELSE 1)
jobPartAnimDurationWhole(T, n) == durationPerJob(T, n)
jobPartAnimDuration(T, n) == RatDivInt(durationPerJob(T, n), 2)

\* the timing constants of a render of n items; the baseline animation has no
\* delay
Timing(T, n) ==
    [baselineDelay |-> RatOfInt(0),
     baselineDuration |-> baselineDuration(T),
     datesDelay |-> datesDelay(T),
     datesDuration |-> datesDuration(T),
     jobsStartTime |-> jobsStartTime(T),
     jobsDuration |-> jobsDuration(T),
     durationPerJob |-> durationPerJob(T, n),
     jobPartAnimDuration |-> jobPartAnimDuration(T, n)]

-----------------------------------------------------------------------------
(* Date labels *)

\* a proximity test with twice the threshold
IsTooCloseDoubled(drawn, nx) ==
    \E x \in drawn :
        RatLess(RatAbs(RatSub(x, nx)), RatOfInt(2 * labelProximityThreshold))

\* [...drawnLabelXCoords].some((x) => Math.abs(x - nx) < labelProximityThreshold)
IsTooClose(drawn, nx) ==
    \E x \in drawn :
        RatLess(RatAbs(RatSub(x, nx)), RatOfInt(labelProximityThreshold))

\* one date label of item it at x: drawn unless too close to a drawn one
LabelAt(it, which, nx, labelY, drawn) ==
    [id |-> it.id, which |-> which, x |-> nx, y |-> labelY,
     drawn |-> ~IsTooClose(drawn, nx)]

\* the loop over the items from the k-th on; acc the labels considered so far
RECURSIVE DateLabelsFrom(_, _, _, _, _, _)
DateLabelsFrom(its, k, scale, baselineY, drawn, acc) ==
    IF k > Len(its) THEN [labels |-> acc, drawnLabelXCoords |-> drawn]
    ELSE LET it == its[k]
             ny == laneToY(it.lane, baselineY)
             onBaseline == ny = baselineY
             labelY == IF onBaseline THEN ny - nodeRadius - 4 ELSE ny + nodeRadius + 4
             startLabel == LabelAt(it, "start", xScaleAt(scale, StartTime(it)), labelY, drawn)
             acc1 == IF includeStartDate THEN Append(acc, startLabel) ELSE acc
             drawn1 == IF includeStartDate /\ startLabel.drawn
                       THEN drawn \cup {startLabel.x} ELSE drawn
             hasEndLabel == includeEndDate /\ it.end # Null
             endLabel == LabelAt(it, "end", xScaleAt(scale, it.end.time.val), labelY, drawn1)
             acc2 == IF hasEndLabel THEN Append(acc1, endLabel) ELSE acc1
             drawn2 == IF hasEndLabel /\ endLabel.drawn
                       THEN drawn1 \cup {endLabel.x} ELSE drawn1
         IN  DateLabelsFrom(its, k + 1, scale, baselineY, drawn2, acc2)

\* date labels that go on from the set left by the previous render
DateLabelsShared(its, scale, baselineY) ==
    DateLabelsFrom(its, 1, scale, baselineY, drawnLabelXCoords, <<>>)

\* if (includeStartDate || includeEndDate) { ... }, from an empty set
DateLabels(its, scale, baselineY) ==
    IF includeStartDate \/ includeEndDate
    THEN DateLabelsFrom(its, 1, scale, baselineY, {}, <<>>)
    ELSE [labels |-> <<>>, drawnLabelXCoords |-> {}]

-----------------------------------------------------------------------------
(* Duration bars *)

\* .timeline-baseline { stroke-dasharray: ${width}; stroke-dashoffset: ${width} }
baselineDashArray == width
\* the baseline, a line from (margin.left, baselineY) to
\* (width - margin.right, baselineY): its length
baselineLineLength == (width - marginRight) - marginLeft
\* .job-connector, .job-connector-in { stroke-dasharray: 200; stroke-dashoffset: 200 }
connectorDashArray == 200
\* the connector of a job on the baseline, a line from (x1, y - 6) to
\* (x1, y + 6): its length
connectorHalfHeight == 6
ConnectorLineLength(y) == (y + connectorHalfHeight) - (y - connectorHalfHeight)

\* the geometry and the delay of the i-th item (from 0) of the items array
DrawItem(its, i, scale, baselineY, t, tm) ==
    LET it == its[i + 1]
        x1 == xScaleAt(scale, StartTime(it))
        x2 == xScaleAt(scale, EndOrNow(it, t))
        w == RatMax(RatOfInt(minBarWidth), RatSub(x2, x1))
        y == laneToY(it.lane, baselineY)
        \* Boolean(it.title): the title column of the rows is empty
        hasTitle == FALSE
        blockHeight == (IF hasTitle THEN 2 ELSE 1) * lineHeight
        topY == IF y < baselineY THEN y - nodeRadius - 8 - blockHeight
                ELSE y + nodeRadius + 8
        \* jobsStartTime + i * durationPerJob
        delay == RatAdd(tm.jobsStartTime, RatTimesInt(tm.durationPerJob, i))
    IN  [id |-> it.id, x1 |-> x1, x2 |-> x2,
         y |-> y, topY |-> topY,
         w |-> w, barX |-> RatMin(x1, x2),
         delay |-> delay,
         \* if (it.end || y !== baselineY): the closing connector and its delay
         hasClosingConnector |-> it.end # Null \/ y # baselineY,
         closingConnectorDelay |-> RatAdd(delay, tm.jobPartAnimDuration)]

\* for (const [i, it] of items.entries()) from the i-th item (from 0) on
RECURSIVE DrawFrom(_, _, _, _, _, _)
DrawFrom(its, i, scale, baselineY, t, tm) ==
    IF i >= Len(its) THEN <<>>
    ELSE <<DrawItem(its, i, scale, baselineY, t, tm)>>
             \o DrawFrom(its, i + 1, scale, baselineY, t, tm)

DrawItems(its, scale, baselineY, t, tm) == DrawFrom(its, 0, scale, baselineY, t, tm)

-----------------------------------------------------------------------------
(* Error responses *)

\* createValidationErrorSVG: status 400
createValidationErrorSVG(message) ==
    [kind |-> "error", status |-> 400, message |-> message]
\* createForbiddenSVG: status 403
createForbiddenSVG(message) ==
    [kind |-> "error", status |-> 403, message |-> message]
\* createNotFoundSVG: `${resource} not found`, status 404
createNotFoundSVG(resource) ==
    [kind |-> "error", status |-> 404, message |-> resource]

\* the strings handleError looks for that occur in a message of the program
Fragments(message) ==
    CASE message = "Invalid start date in row" -> {"Invalid"}
      [] message = "User \"${username}\" not found" -> {"not found", "User \""}
      [] message = "GITHUB_TOKEN environment variable is not configured" -> {"GITHUB_TOKEN"}
      [] message = "GitHub API HTTP ${res.status}: ${text}" -> {}
      [] message = "GitHub GraphQL error: ${errors}" -> {}
      [] message = "No contribution calendar returned" -> {}
      [] OTHER -> {}
Includes(message, fragment) == fragment \in Fragments(message)

\* handleError: the status from the words of the message
handleError(message) ==
    [kind |-> "error",
     status |-> IF Includes(message, "not found") \/ Includes(message, "User \"")
                THEN 404
                ELSE IF \/ Includes(message, "required")
                        \/ Includes(message, "Invalid")
                        \/ Includes(message, "must be")
                        \/ Includes(message, "format")
                        \/ Includes(message, "cannot exceed")
                THEN 400
                ELSE 500,
     message |-> IF /\ ~(Includes(message, "not found") \/ Includes(message, "User \""))
                    /\ ~(\/ Includes(message, "required")
                         \/ Includes(message, "Invalid")
                         \/ Includes(message, "must be")
                         \/ Includes(message, "format")
                         \/ Includes(message, "cannot exceed"))
                    /\ Includes(message, "GITHUB_TOKEN")
                 THEN "Server configuration error"
                 ELSE message]


-----------------------------------------------------------------------------
(* Inputs *)

MaxRows == 3
\* rows of a CSV with logos
MaxLogoRows == 2
MaxParseRows == 2
\* rows of a direct call of the generator
MaxDirectRows == 2

Str2020 == <<"2", "0", "2", "0">>
Str2020_01_02 == <<"2", "0", "2", "0", "-", "0", "1", "-", "0", "2">>
Str2020_03 == <<"2", "0", "2", "0", "-", "0", "3">>
Str2020_01 == <<"2", "0", "2", "0", "-", "0", "1">>
Str2020_06 == <<"2", "0", "2", "0", "-", "0", "6">>
Str2021_01 == <<"2", "0", "2", "1", "-", "0", "1">>
Str2021_06 == <<"2", "0", "2", "1", "-", "0", "6">>
Str2021_07 == <<"2", "0", "2", "1", "-", "0", "7">>
Str2020_13 == <<"2", "0", "2", "0", "-", "1", "3">>
Str2020_00 == <<"2", "0", "2", "0", "-", "0", "0">>
Str2020_02_31 == <<"2", "0", "2", "0", "-", "0", "2", "-", "3", "1">>
Str2020_6 == <<"2", "0", "2", "0", "-", "6">>
StrAbc == <<"a", "b", "c">>
StrEmpty == <<>>
StrBlank == <<" ">>
StrCompany == <<"A">>
Str2020_08_16 == <<"2", "0", "2", "0", "-", "0", "8", "-", "1", "6">>
Str2020_01_04 == <<"2", "0", "2", "0", "-", "0", "1", "-", "0", "4">>
Str2020_01_06 == <<"2", "0", "2", "0", "-", "0", "1", "-", "0", "6">>

\* start and end strings of the layout inputs: the three accepted shapes
LayoutDates == {Str2020, Str2020_01_02, Str2020_03}

\* start and end strings of the parsing inputs: accepted shapes, dates that
\* are no calendar dates, other shapes, and the empty string
ParseDates == {Str2020, Str2020_13, Str2020_00, Str2020_02_31, Str2020_6, StrAbc,
               StrEmpty}
\* end strings of the parsing inputs
ParseEnds == {Str2020, Str2020_13, StrAbc, StrEmpty}

Row(company, start, end) == [company |-> company, start |-> start, end |-> end]

\* A 2020-01..2021-06, B 2020-06..2021-01, C 2021-07..ongoing
ScenarioRows == <<Row(StrCompany, Str2020_01, Str2021_06),
                  Row(StrCompany, Str2020_06, Str2021_01),
                  Row(StrCompany, Str2021_07, StrEmpty)>>

\* a time domain of 228 days, 5 pixels a day: A 2020-01-01..2020-08-16,
\* B from 2020-01-04 (15 pixels right of A's start), C from 2020-01-06 (25
\* pixels right of A's start, 10 right of B's), both ongoing
LabelScenarioRows == <<Row(StrCompany, Str2020, Str2020_08_16),
                       Row(StrCompany, Str2020_01_04, StrEmpty),
                       Row(StrCompany, Str2020_01_06, StrEmpty)>>

\* clock readings: 2020-02-01, between the layout dates (after two of them,
\* before the third), and 2020-03-01, on the last of them
NowChoices == {DateUTC(Num(2020), Num(1), Num(1)).val,
               DateUTC(Num(2020), Num(2), Num(1)).val}

SeqsUpTo(S, n) == UNION {[1..k -> S] : k \in 0..n}

LayoutInputs ==
    SeqsUpTo([company : {StrCompany}, start : LayoutDates,
              end : LayoutDates \cup {StrEmpty}], MaxRows)
        \cup {ScenarioRows, LabelScenarioRows}

StrLogoA == <<".", "/", "a">>
StrLogoB == <<"h", "/", "b">>
\* rows with a logo column: a local file, a remote URL or none
LogoRowChoices ==
    [company : {StrCompany}, start : {Str2020, Str2020_03}, end : {StrEmpty},
     logo : {StrEmpty, StrLogoA, StrLogoB}]
LogoInputs == SeqsUpTo(LogoRowChoices, MaxLogoRows) \ {<<>>}

\* the row of a line with nothing on it
BlankLine == [company |-> StrEmpty]

\* rows of the parsing inputs: every start with every end, a start of blanks,
\* a row without company, a line with nothing on it
ParseRowChoices ==
    [company : {StrCompany}, start : ParseDates \cup {StrBlank}, end : ParseEnds]
        \cup {Row(StrEmpty, Str2020, StrEmpty), BlankLine}

\* both the handler and the generator trim the text, so that its last line is
\* never one with nothing on it
ParseInputs ==
    {rs \in SeqsUpTo(ParseRowChoices, MaxParseRows) :
        rs # <<>> /\ ~IsBlankLine(rs[Len(rs)])}

\* rows of the timing inputs: an ended interval and an ongoing one
MaxTimingRows == 4
TimingInputs ==
    SeqsUpTo({Row(StrCompany, Str2020, Str2020_03), Row(StrCompany, Str2020_01_02, StrEmpty)},
             MaxTimingRows)

\* animationTotalDuration of the timing inputs, in seconds: the default 5, 10,
\* 0 (the handler takes the default, the generator takes 0), 1/2, 9/10, -3
TimingDurations ==
    {RatOfInt(animationTotalDuration), RatOfInt(10), RatOfInt(0), Rat(1, 2),
     Rat(9, 10), RatOfInt(-3)}

\* The generator is documented to take start and end strings of the accepted
\* shapes; it checks the start itself and takes the end as it comes, so a
\* direct call is given ends of the accepted shapes (or empty) only.
DirectCallable(rs) ==
    \A i \in 1..Len(rs) :
        LET end == Trim(Field(rs[i], "end")) IN end = <<>> \/ dateRegexTest(end)

-----------------------------------------------------------------------------
(* Logos *)

\* a fetch (or file read) that has not settled
Pending == [type |-> "pending"]
\* `data:${ct};base64,...`: the content found at url
DataURI(url) == [type |-> "data", of |-> url]

\* it.logoData = it.logo ? await logoToDataURI(it.logo) : null, up to the
\* await; items.forEach((it) => (it.logoData = null)) without embedLogos
StartFetches(its, embed) ==
    [k \in 1..Len(its) |-> IF embed /\ its[k].logo # <<>> THEN Pending ELSE Null]

\* what logoToDataURI(url) can resolve to: the data URI, or null when the
\* fetch rejects, the response is not ok or the file cannot be read
FetchResults(url) == {DataURI(url), Null}

\* a result that lands on the first item still waiting
AttachToFirstPending(ld, k, r) ==
    LET first == CHOOSE j \in 1..Len(ld) :
                     ld[j] = Pending /\ \A i \in 1..(j - 1) : ld[i] # Pending
    IN  [ld EXCEPT ![first] = r]
\* it.logoData = await logoToDataURI(it.logo): the result goes to its own item
Attach(ld, k, r) == [ld EXCEPT ![k] = r]

\* if (it.logoData): the clip path `logo_clip_${it.id}` and the image, for the
\* items from the k-th on, in processing order
RECURSIVE DrawLogosFrom(_, _, _)
DrawLogosFrom(its, ld, k) ==
    IF k > Len(its) THEN <<>>
    ELSE (IF ld[k] # Null
          THEN <<[id |-> its[k].id, clipId |-> its[k].id, href |-> ld[k]]>>
          ELSE <<>>) \o DrawLogosFrom(its, ld, k + 1)
DrawLogos(its, ld) == DrawLogosFrom(its, ld, 1)

\* appended before the logos are awaited, and after
GroupsBeforeFetch == {"style", "title", "baseline"}
GroupsAfterFetch == {"dateLabels", "jobs"}

-----------------------------------------------------------------------------
(* The activity chart: niceYTicks and computePathLength *)

\* the ticks v = start, start + step, ... while v <= maxCnt
RECURSIVE TicksFrom(_, _, _)
TicksFrom(v, step, maxCnt) ==
    IF v <= maxCnt THEN <<v>> \o TicksFrom(v + step, step, maxCnt) ELSE <<>>

\* Math.ceil(maxCount / (targetTicks - 1)) || 1, for maxCount >= 0 and
\* targetTicks >= 2
TickStep(maxCnt, target) ==
    LET q == (maxCnt + (target - 2)) \div (target - 1)
    IN  IF q = 0 THEN 1 ELSE q

\* the same ticks without the final push of maxCount
niceYTicksNoAppend(maxCnt, target) == TicksFrom(0, TickStep(maxCnt, target), maxCnt)

niceYTicks(maxCnt, target) ==
    LET ticks == TicksFrom(0, TickStep(maxCnt, target), maxCnt)
    IN  IF ticks[Len(ticks)] # maxCnt THEN Append(ticks, maxCnt) ELSE ticks

Point(x, y) == [x |-> x, y |-> y]

\* the largest r with r * r <= n
ISqrt(n) == CHOOSE r \in 0..n : r * r <= n /\ (r + 1) * (r + 1) > n
IsSquare(n) == ISqrt(n) * ISqrt(n) = n

\* dx * dx + dy * dy, in lowest terms
SumOfSquares(dx, dy) == RatAdd(RatMul(dx, dx), RatMul(dy, dy))
\* the segment has a rational length
HasExactLength(p, q) ==
    LET s == SumOfSquares(RatSub(q.x, p.x), RatSub(q.y, p.y))
    IN  IsSquare(s.num) /\ IsSquare(s.den)

\* |dx| + |dy| in the place of the Euclidean length
hypotManhattan(dx, dy) == RatAdd(RatAbs(dx), RatAbs(dy))
\* Math.hypot(dx, dy) where the root is rational
hypot(dx, dy) ==
    LET s == SumOfSquares(dx, dy) IN Rat(ISqrt(s.num), ISqrt(s.den))

\* L after the loop has run from index i (from 0) to the end
RECURSIVE PathFrom(_, _, _)
PathFrom(pts, i, L) ==
    IF i < Len(pts)
    THEN LET dx == RatSub(pts[i + 1].x, pts[i].x)
             dy == RatSub(pts[i + 1].y, pts[i].y)
         IN  PathFrom(pts, i + 1, RatAdd(L, hypot(dx, dy)))
    ELSE L

computePathLength(pts) == RatMax(RatOfInt(1), PathFrom(pts, 1, RatOfInt(0)))

\* inputs: a 3-4-5 triangle and the same triangle an eighth the size
MaxPoints == 3
MaxCountBound == 9
MaxTargetTicks == 6
PointChoices ==
    {Point(RatOfInt(0), RatOfInt(0)), Point(RatOfInt(3), RatOfInt(4)),
     Point(RatOfInt(3), RatOfInt(0)), Point(Rat(3, 8), Rat(1, 2)),
     Point(Rat(3, 8), RatOfInt(0))}
PathInputs ==
    {pts \in SeqsUpTo(PointChoices, MaxPoints) :
        \A i \in 1..(Len(pts) - 1) : HasExactLength(pts[i], pts[i + 1])}

-----------------------------------------------------------------------------
(* The state machine *)

NoScale == [d0 |-> Undefined, d1 |-> Undefined, r0 |-> 0, r1 |-> 0]
NoCanvas == [laneCount |-> Undefined, contentHeight |-> Undefined,
             height |-> Undefined, baselineY |-> Undefined]
NoOutcome == [caller |-> "none", kind |-> "pending", status |-> 0, message |-> ""]
NoOutput == [lanes |-> <<>>, labels |-> <<>>, bars |-> <<>>]
NoTiming == Timing(RatOfInt(0), 0)

\* no activity chart is asked for
ActivityIdle ==
    /\ points = <<>>
    /\ maxCount = 1
    /\ targetTicks = 5
    /\ rawPathLength = Undefined
    /\ pathLength = Undefined
    /\ yTicks = <<>>
    /\ prevTicks = <<>>
    /\ ticksCalls = 0

\* no response sent yet
NoResponse == [status |-> 0]

\* no API request is made
ApiIdle ==
    /\ lockedUser = Undefined
    /\ githubToken = TRUE
    /\ cache = <<>>
    /\ inflight = {}
    /\ response = NoResponse
    /\ served = 0

TimelineInit(inputs, durations) ==
    /\ rows \in inputs
    /\ totalDurationOpt \in durations
    /\ now \in NowChoices
    /\ pc = "recv"
    /\ items = <<>>
    /\ xScale = NoScale
    /\ laneLastEnd = <<>>
    /\ canvas = NoCanvas
    /\ labels = <<>>
    /\ drawnLabelXCoords = {}
    /\ bars = <<>>
    /\ timing = NoTiming
    /\ outcome = NoOutcome
    /\ run = 1
    /\ prev = NoOutput
    /\ logoData = <<>>
    /\ svgGroups = {}
    /\ logoImages = <<>>
    /\ settled = <<>>

InitWith(inputs, durations) ==
    /\ TimelineInit(inputs, durations)
    /\ embedLogos = TRUE
    /\ ActivityIdle
    /\ ApiIdle

Init == InitWith(LayoutInputs, {RatOfInt(animationTotalDuration)})
ParseInit == InitWith(ParseInputs, {RatOfInt(animationTotalDuration)})
TimingInit == InitWith(TimingInputs, TimingDurations)

\* requests whose rows have logos, with and without embedLogos
LogoInit ==
    /\ TimelineInit(LogoInputs, {RatOfInt(animationTotalDuration)})
    /\ now = DateUTC(Num(2020), Num(2), Num(1)).val
    /\ embedLogos \in BOOLEAN
    /\ ActivityIdle
    /\ ApiIdle

\* the helpers of the activity chart on their inputs, no timeline request;
\* the inputs of one helper vary while the other has the chart's usual ones
ActivityInit ==
    /\ TimelineInit({<<>>}, {RatOfInt(animationTotalDuration)})
    /\ ApiIdle
    /\ embedLogos = TRUE
    /\ now = DateUTC(Num(2020), Num(1), Num(1)).val
    /\ \/ /\ points \in PathInputs
          /\ maxCount = 1
          /\ targetTicks = 5
       \/ /\ points = <<Point(RatOfInt(0), RatOfInt(0))>>
          /\ maxCount \in 0..MaxCountBound
          /\ targetTicks \in 2..MaxTargetTicks
    /\ rawPathLength = Undefined
    /\ pathLength = Undefined
    /\ yTicks = <<>>
    /\ prevTicks = <<>>
    /\ ticksCalls = 0

\* what a render hands to the serialisation: lane per item, label decisions,
\* bar geometry and delays, all in processing order
Output ==
    [lanes |-> [i \in 1..Len(items) |-> [id |-> items[i].id, lane |-> items[i].lane]],
     labels |-> labels,
     bars |-> bars]

\* the lanes of the sorted items and the array of lane ends
Allocated(alloc) ==
    /\ items' = alloc.items
    /\ laneLastEnd' = alloc.laneLastEnd

\* the date labels drawn and the x coordinates they occupy
Labelled(dl) ==
    /\ labels' = dl.labels
    /\ drawnLabelXCoords' = dl.drawnLabelXCoords

\* generateExperienceTimeline(csvString, opts) on the parsed rows p, when
\* rows.map has not thrown: scale, sort and lanes, canvas, timing
\* T the animationTotalDuration of the call
Layout(p, T) ==
    /\ xScale' = ScaleTime(p.items, now)
    /\ Allocated(AllocateLanes(SortItems(p.items, now), now))
    /\ canvas' = Canvas(items')
    /\ timing' = Timing(T, Len(items'))

\* the date labels and the job groups, drawn once the logos are known
Draw(its, scale, cv, tm, ld) ==
    /\ Labelled(DateLabels(its, scale, cv.baselineY.val))
    /\ bars' = DrawItems(its, scale, cv.baselineY.val, now, tm)
    /\ logoImages' = DrawLogos(its, ld)

\* the whole call when no row has a logo (no fetch is awaited)
Generate(p, T) ==
    /\ Layout(p, T)
    /\ logoData' = StartFetches(items', embedLogos)
    /\ Draw(items', xScale', canvas', timing', logoData')
    /\ svgGroups' = GroupsBeforeFetch \cup GroupsAfterFetch

\* rows.map has thrown: nothing is laid out or drawn
Thrown ==
    UNCHANGED <<items, xScale, laneLastEnd, canvas, labels, drawnLabelXCoords, bars,
                timing, logoData, svgGroups, logoImages>>

\* parseFloat(animationTotalDurationStr) || 5: zero gives the default
HandlerDuration(opt) == IF opt.num = 0 THEN RatOfInt(animationTotalDuration) ELSE opt
\* the animationTotalDuration the generator is called with
CallDuration(caller) ==
    IF caller = "handler" THEN HandlerDuration(totalDurationOpt) ELSE totalDurationOpt

\* the handler's try block after validation: the generator's SVG is answered
\* 200, its error goes to handleError
Respond(p) ==
    IF p.ok
    THEN /\ Generate(p, CallDuration("handler"))
         /\ outcome' = [caller |-> "handler", kind |-> "svg", status |-> 200,
                        message |-> ""]
    ELSE /\ Thrown
         /\ outcome' = [caller |-> "handler"] @@ handleError("Invalid start date in row")

\* the handler on a request: validateExperienceCSV (400 when it throws), then
\* the generator
HandleRequest ==
    /\ pc = "recv"
    /\ IF validateExperienceCSV(rows) # "ok"
       THEN /\ Thrown
            /\ outcome' = [caller |-> "handler"]
                              @@ createValidationErrorSVG(validateExperienceCSV(rows))
       ELSE Respond(ParseItems(rows))
    /\ pc' = "done"
    /\ UNCHANGED <<rows, totalDurationOpt, now, run, prev, embedLogos, settled>>
    /\ UNCHANGED activityVars
    /\ UNCHANGED apiVars

\* what a direct caller gets: the SVG returned or the error thrown (no HTTP
\* status)
Return(p) ==
    IF p.ok
    THEN /\ Generate(p, CallDuration("direct"))
         /\ outcome' = [caller |-> "direct", kind |-> "svg", status |-> 0,
                        message |-> ""]
    ELSE /\ Thrown
         /\ outcome' = [caller |-> "direct", kind |-> "exception", status |-> 0,
                        message |-> "Invalid start date in row"]

\* a direct call of the exported generator
CallGenerator ==
    /\ pc = "recv"
    /\ Len(rows) <= MaxDirectRows
    /\ DirectCallable(rows)
    /\ Return(ParseItems(rows))
    /\ pc' = "done"
    /\ UNCHANGED <<rows, totalDurationOpt, now, run, prev, embedLogos, settled>>
    /\ UNCHANGED activityVars
    /\ UNCHANGED apiVars

\* the generator is called once more with the same csvString and options, at
\* the same clock reading (a second direct call, or the same request when the
\* cached SVG is gone); the first call's output is kept for comparison
RenderAgain ==
    /\ pc = "done"
    /\ run = 1
    /\ outcome.kind = "svg"
    /\ prev' = Output
    /\ run' = 2
    /\ Generate(ParseItems(rows), CallDuration(outcome.caller))
    /\ UNCHANGED <<rows, totalDurationOpt, now, pc, outcome, embedLogos, settled>>
    /\ UNCHANGED activityVars
    /\ UNCHANGED apiVars

\* the handler on a request up to `await Promise.all(...)' of the generator:
\* validation, items, scale, lanes, canvas, style sheet, title and baseline,
\* and one logoToDataURI call per item with a logo
BeginRender ==
    /\ pc = "recv"
    /\ IF validateExperienceCSV(rows) # "ok"
       THEN /\ Thrown
            /\ outcome' = [caller |-> "handler"]
                              @@ createValidationErrorSVG(validateExperienceCSV(rows))
            /\ pc' = "done"
       ELSE IF ~ParseItems(rows).ok
       THEN /\ Thrown
            /\ outcome' = [caller |-> "handler"]
                              @@ handleError("Invalid start date in row")
            /\ pc' = "done"
       ELSE /\ Layout(ParseItems(rows), CallDuration("handler"))
            /\ logoData' = StartFetches(items', embedLogos)
            /\ svgGroups' = GroupsBeforeFetch
            /\ pc' = "fetching"
            /\ UNCHANGED <<labels, drawnLabelXCoords, bars, logoImages, outcome>>
    /\ UNCHANGED <<rows, totalDurationOpt, now, run, prev, embedLogos, settled>>
    /\ UNCHANGED activityVars
    /\ UNCHANGED apiVars

\* one logoToDataURI call settles: its data URI or null goes to its item
FetchSettles ==
    /\ pc = "fetching"
    /\ \E k \in 1..Len(logoData) :
          /\ logoData[k] = Pending
          /\ \E r \in FetchResults(items[k].logo) :
                logoData' = Attach(logoData, k, r)
          /\ settled' = Append(settled, items[k].id)
    /\ UNCHANGED <<rows, totalDurationOpt, now, pc, items, xScale, laneLastEnd, canvas,
                   labels, drawnLabelXCoords, bars, timing, outcome, run, prev,
                   embedLogos, svgGroups, logoImages>>
    /\ UNCHANGED activityVars
    /\ UNCHANGED apiVars

\* Promise.all has resolved: date labels, job groups with their logos, and
\* the handler's 200
FinishRender ==
    /\ pc = "fetching"
    /\ \A k \in 1..Len(logoData) : logoData[k] # Pending
    /\ Draw(items, xScale, canvas, timing, logoData)
    /\ svgGroups' = svgGroups \cup GroupsAfterFetch
    /\ outcome' = [caller |-> "handler", kind |-> "svg", status |-> 200,
                   message |-> ""]
    /\ pc' = "done"
    /\ UNCHANGED <<rows, totalDurationOpt, now, items, xScale, laneLastEnd, canvas,
                   timing, run, prev, embedLogos, logoData, settled>>
    /\ UNCHANGED activityVars
    /\ UNCHANGED apiVars

\* const rawPathLength = computePathLength(points);
\* const pathLength = Math.ceil(rawPathLength);
CallComputePathLength ==
    /\ rawPathLength = Undefined
    /\ rawPathLength' = computePathLength(points)
    /\ pathLength' = RatCeil(rawPathLength')
    /\ UNCHANGED <<points, maxCount, targetTicks, yTicks, prevTicks, ticksCalls>>
    /\ UNCHANGED timelineVars
    /\ UNCHANGED apiVars

\* niceYTicks(maxCount, targetTicks), a first and a second time
CallNiceYTicks ==
    /\ ticksCalls < 2
    /\ prevTicks' = yTicks
    /\ yTicks' = niceYTicks(maxCount, targetTicks)
    /\ ticksCalls' = ticksCalls + 1
    /\ UNCHANGED <<points, maxCount, targetTicks, rawPathLength, pathLength>>
    /\ UNCHANGED timelineVars
    /\ UNCHANGED apiVars

Next ==
    \/ HandleRequest
    \/ CallGenerator
    \/ RenderAgain

LogoNext ==
    \/ BeginRender
    \/ FetchSettles
    \/ FinishRender

ActivityNext ==
    \/ CallComputePathLength
    \/ CallNiceYTicks

Spec == Init /\ [][Next]_vars
ParseSpec == ParseInit /\ [][Next]_vars
TimingSpec == TimingInit /\ [][Next]_vars
ActivitySpec == ActivityInit /\ [][ActivityNext]_vars
LogoSpec == LogoInit /\ [][LogoNext]_vars
\* the render's continuation runs once Promise.all has resolved; whether a fetch
\* settles is up to the network and the file system: the code sets no timer
\* and passes no abort signal
LogoLiveSpec == LogoSpec /\ WF_vars(FinishRender)

-----------------------------------------------------------------------------
(* Properties *)

\* the render has returned its SVG: the layout is complete
Rendered == pc = "done" /\ outcome.kind = "svg"

ItemIndex == 1..Len(items)
Start(i) == StartTime(items[i])
End(i) == EndOrNow(items[i], now)
Max2(a, b) == IF a >= b THEN a ELSE b
Min2(a, b) == IF a <= b THEN a ELSE b

\* the half-open ranges [start, end-or-now) of items i and j share an instant
Overlap(i, j) == Max2(Start(i), Start(j)) < Min2(End(i), End(j))

\* C1: no two intervals of the same lane have overlapping half-open ranges
\* [start, end-or-now), whatever the input order, ongoing, zero-length and
\* inverted (end < start) intervals included.
C1_LaneNonOverlap ==
    Rendered =>
        \A i, j \in ItemIndex :
            (i # j /\ items[i].lane = items[j].lane) => ~Overlap(i, j)

\* three intervals, two of them in one lane, one of those inverted, one ongoing
C1_Witness ==
    /\ Rendered
    /\ Len(items) = 3
    /\ \E i, j \in ItemIndex :
          /\ i # j
          /\ items[i].lane = items[j].lane
          /\ End(i) < Start(i)
    /\ \E k \in ItemIndex : items[k].end = Null
    /\ \E i, j \in ItemIndex : Overlap(i, j) /\ i # j

\* the items processed before the k-th that were put in lane l
EarlierInLane(l, k) == {j \in 1..(k - 1) : items[j].lane = l}
\* lastEnd of lane l when the k-th item is processed
LastEndBefore(l, k) ==
    LET last == CHOOSE j \in EarlierInLane(l, k) :
                    \A h \in EarlierInLane(l, k) : h <= j
    IN  End(last)
\* the lanes opened before the k-th item is processed
OpenBefore(k) == {items[j].lane : j \in 1..(k - 1)}

\* C2: in processing order, each interval goes to the lowest-index open lane
\* whose lastEnd <= its start (equality counts as free), a new lane (the next
\* index) is opened only when no open lane qualifies, and the lane's lastEnd
\* becomes the interval's effective end; the scenario A 2020-01..2021-06,
\* B 2020-06..2021-01, C 2021-07..ongoing gives lanes A=0, B=1, C=0.
C2_GreedyFirstFit ==
    Rendered =>
        /\ \A k \in ItemIndex :
              LET l == items[k].lane
              IN  /\ \A m \in 0..(l - 1) :
                        m \in OpenBefore(k) /\ LastEndBefore(m, k) > Start(k)
                  /\ l \in OpenBefore(k) => LastEndBefore(l, k) <= Start(k)
                  /\ l \notin OpenBefore(k) =>
                        /\ l = Cardinality(OpenBefore(k))
                        /\ \A m \in OpenBefore(k) : LastEndBefore(m, k) > Start(k)
        /\ \A l \in 0..(Len(laneLastEnd) - 1) :
              /\ EarlierInLane(l, Len(items) + 1) # {}
              /\ laneLastEnd[l + 1] = LastEndBefore(l, Len(items) + 1)
        /\ rows = ScenarioRows =>
              \A k \in ItemIndex :
                  items[k].lane = (IF items[k].id = 1 THEN 1 ELSE 0)

\* the scenario, laid out
C2_Witness ==
    /\ Rendered
    /\ rows = ScenarioRows
    /\ Len(items) = 3
    /\ Len(laneLastEnd) = 2

\* the number of intervals whose half-open range contains instant t
Depth(t) == Cardinality({i \in ItemIndex : Start(i) <= t /\ t < End(i)})
\* the largest number of intervals that share an instant (0 for none)
MaxDepth ==
    LET depths == {Depth(Start(i)) : i \in ItemIndex} \cup {0}
    IN  CHOOSE d \in depths : \A e \in depths : e <= d
\* the least number of lanes of a non-overlapping assignment of a non-empty set
MinLanes == Max2(1, MaxDepth)

\* C3 as stated: for every non-empty interval set the number of lanes opened
\* is the minimum that admits a non-overlapping assignment, the largest
\* number of intervals sharing an instant.
C3_AsStated ==
    (Rendered /\ Len(items) >= 1) => Len(laneLastEnd) = MinLanes

AllProper == \A i \in ItemIndex : Start(i) < End(i)

\* C3 amended: when every interval has start < end-or-now, the number of
\* lanes opened equals the largest number of intervals sharing an instant.
C3_MinimumLanesProper ==
    (Rendered /\ Len(items) >= 1 /\ AllProper) => Len(laneLastEnd) = MaxDepth

\* three proper intervals, two lanes, one lane reused
C3_Witness ==
    /\ Rendered
    /\ Len(items) = 3
    /\ AllProper
    /\ Len(laneLastEnd) = 2
    /\ MaxDepth = 2

\* position in the items array of the item with identifier id
PositionOf(id) == CHOOSE k \in ItemIndex : items[k].id = id

\* C4: the items are processed, for lanes, labels and animation indexing, by
\* ascending start and, among equal starts, descending effective end (an
\* absent end counting as now), whatever the order of the input rows.
C4_ProcessingOrder ==
    /\ Rendered =>
          /\ \A k \in 1..(Len(items) - 1) :
                \/ Start(k) < Start(k + 1)
                \/ Start(k) = Start(k + 1) /\ End(k) >= End(k + 1)
          /\ {items[k].id : k \in ItemIndex} = 0..(Len(rows) - 1)
          /\ \A k \in ItemIndex :
                /\ items[k].start = parseYMD(Trim(rows[items[k].id + 1].start))
                /\ items[k].endRaw = Trim(rows[items[k].id + 1].end)
    /\ Rendered =>
          /\ Len(bars) = Len(items)
          /\ \A k \in ItemIndex : bars[k].id = items[k].id
          /\ \A p, q \in 1..Len(labels) :
                p < q => PositionOf(labels[p].id) <= PositionOf(labels[q].id)
          /\ \A k \in 1..(Len(bars) - 1) : RatLess(bars[k].delay, bars[k + 1].delay)

\* same start, the ongoing interval processed before the ended one although
\* it comes later in the input
C4_Witness ==
    /\ Rendered
    /\ Len(items) = 3
    /\ \E k \in 1..2 :
          /\ Start(k) = Start(k + 1)
          /\ items[k].end = Null
          /\ items[k + 1].end # Null
          /\ End(k) > End(k + 1)
          /\ items[k].id > items[k + 1].id


Instants ==
    {Start(i) : i \in ItemIndex} \cup {End(i) : i \in ItemIndex} \cup {now}
RangeStart == RatOfInt(marginLeft)
RangeEnd == RatOfInt(width - marginRight)
RangeMiddle == Rat(marginLeft + (width - marginRight), 2)

\* C6: the projection of the scale built from the items is monotonic
\* non-decreasing: t1 <= t2 implies project(t1) <= project(t2).
C6_ScaleMonotonic ==
    (Rendered /\ Len(items) >= 1) =>
        \A t1, t2 \in Instants :
            t1 <= t2 => RatLeq(xScaleAt(xScale, t1), xScaleAt(xScale, t2))

\* C7: for every interval the projected start and the projected end-or-now
\* lie within [margin.left, width - margin.right].
C7_WithinRange ==
    Rendered =>
        \A k \in 1..Len(bars) :
            /\ RatLeq(RangeStart, bars[k].x1) /\ RatLeq(bars[k].x1, RangeEnd)
            /\ RatLeq(RangeStart, bars[k].x2) /\ RatLeq(bars[k].x2, RangeEnd)

ZeroWidthDomain == Len(items) >= 1 /\ xScale.d0 = xScale.d1
IsMiddle(x) == x.den > 0 /\ RatEq(x, RangeMiddle)

\* C8: when the time domain has zero width the projection is defined (no
\* division by zero) and is the middle of the pixel range for every instant;
\* the render completes with every coordinate there.
C8_ZeroDomainMidpoint ==
    /\ (Rendered /\ ZeroWidthDomain) =>
          \A t \in Instants \cup {xScale.d0.val - 1, xScale.d0.val + 1} :
              IsMiddle(xScaleAt(xScale, t))
    /\ (Rendered /\ ZeroWidthDomain) =>
          /\ \A k \in 1..Len(bars) : IsMiddle(bars[k].x1) /\ IsMiddle(bars[k].x2)
          /\ \A p \in 1..Len(labels) : IsMiddle(labels[p].x)

\* a rendered input whose intervals all start and end at the same instant
C8_Witness ==
    /\ Rendered
    /\ ZeroWidthDomain
    /\ Len(items) >= 2
    /\ \E k \in ItemIndex : items[k].end = Null

\* C9: degenerate but parseable input yields well-defined geometry: with zero
\* items no lane is opened and lane count (at least 1), canvas height and
\* baseline are numbers; an interval with end < start gets a lane, defined
\* coordinates and a bar of the minimum width.
C9_DegenerateGeometry ==
    Rendered =>
        /\ IsNum(canvas.laneCount) /\ canvas.laneCount.val >= 1
        /\ IsNum(canvas.height)
        /\ IsNum(canvas.baselineY)
        /\ Len(items) = 0 => Len(laneLastEnd) = 0
        /\ \A k \in ItemIndex :
              (items[k].end # Null /\ End(k) < Start(k)) =>
                  /\ items[k].lane \in 0..(Len(laneLastEnd) - 1)
                  /\ bars[k].x1.den > 0 /\ bars[k].x2.den > 0
                  /\ RatEq(bars[k].w, RatOfInt(minBarWidth))

\* the number written by the digits s[from..to]
RECURSIVE DigitsValue(_, _, _)
DigitsValue(s, from, to) ==
    IF from > to THEN 0 ELSE 10 * DigitsValue(s, from, to - 1) + DigitVal(s[to])

IsLeapYear(y) == (y % 4 = 0 /\ y % 100 # 0) \/ y % 400 = 0
DaysInMonth(y, m) ==
    IF m = 2 THEN (IF IsLeapYear(y) THEN 29 ELSE 28)
    ELSE IF m \in {4, 6, 9, 11} THEN 30 ELSE 31

\* s has one of the three shapes and names a month and a day of the calendar
IsCalendarDate(s) ==
    /\ dateRegexTest(s)
    /\ Len(s) >= 7 => DigitsValue(s, 6, 7) \in 1..12
    /\ Len(s) = 10 =>
          DigitsValue(s, 9, 10) \in 1..DaysInMonth(DigitsValue(s, 1, 4), DigitsValue(s, 6, 7))

BadDate(s) == s # <<>> /\ ~IsCalendarDate(s)

\* C10: when some non-empty start or end string is not of the shape YYYY,
\* YYYY-MM or YYYY-MM-DD, or is of that shape without being a calendar date,
\* the render fails and no widget is produced.
C10_InvalidDateFails ==
    (\E i \in 1..Len(rows) :
        \/ BadDate(Trim(Field(rows[i], "start")))
        \/ BadDate(Trim(Field(rows[i], "end"))))
        => outcome.kind # "svg"

\* the request or the call is over
Done == pc = "done"
\* row i has no start: the field is absent, empty or made of blanks
MissingStart(i) == Trim(Field(rows[i], "start")) = <<>>
\* nothing of a layout exists: no item, lane, label or bar
NothingRendered ==
    /\ timing = NoTiming
    /\ items = <<>>
    /\ laneLastEnd = <<>>
    /\ labels = <<>>
    /\ drawnLabelXCoords = {}
    /\ bars = <<>>

\* C11: when some row has an empty or absent start the whole render fails:
\* no lane, label or animation output exists for any row, and the caller gets
\* a failure (an error response with a 4xx/5xx status from the handler, an
\* exception from the generator).
C11_MissingStartFails ==
    (Done /\ \E i \in 1..Len(rows) : MissingStart(i)) =>
        /\ NothingRendered
        /\ outcome.kind \in {"error", "exception"}
        /\ outcome.caller = "handler" => outcome.status \in 400..599

\* a request whose first row is complete and whose second row has no start
C11_Witness ==
    /\ Done
    /\ Len(rows) = 2
    /\ validateRow(rows[1]) = "ok"
    /\ ~IsBlankLine(rows[2]) /\ MissingStart(2)
    /\ outcome.caller = "handler"

LabelIndex == 1..Len(labels)
\* the instant a date label stands for
LabelInstant(p) ==
    LET it == items[PositionOf(labels[p].id)]
    IN  IF labels[p].which = "start" THEN StartTime(it) ELSE it.end.time.val
\* labels p and q are less than the proximity threshold apart
Near(p, q) ==
    RatLess(RatAbs(RatSub(labels[p].x, labels[q].x)), RatOfInt(labelProximityThreshold))
\* the x, in processing order, of the labels that are drawn / suppressed
LabelsAre(xs, drawn) ==
    /\ Len(labels) = Len(xs)
    /\ \A p \in LabelIndex :
          RatEq(labels[p].x, RatOfInt(xs[p])) /\ labels[p].drawn = drawn[p]

\* C12: in processing order a date label is suppressed exactly when a label
\* drawn before it lies less than 20 pixels from its x; otherwise it is drawn
\* and its x joins the set; a suppressed label keeps its x and is not in the
\* set. In the label scenario B's start (15 pixels from A's) is suppressed and
\* C's start (25 pixels from A's, 10 from B's) is drawn.
C12_LabelSuppression ==
    Rendered =>
        /\ \A p \in LabelIndex :
              /\ labels[p].drawn <=> ~\E q \in 1..(p - 1) : labels[q].drawn /\ Near(p, q)
              /\ labels[p].x = xScaleAt(xScale, LabelInstant(p))
        /\ drawnLabelXCoords = {labels[p].x : p \in {q \in LabelIndex : labels[q].drawn}}
        /\ rows = LabelScenarioRows =>
              LabelsAre(<<30, 1170, 45, 55>>, <<TRUE, TRUE, FALSE, TRUE>>)

\* the label scenario rendered: a drawn label next to a suppressed one
C12_Witness ==
    /\ Rendered
    /\ rows = LabelScenarioRows
    /\ \E p, q \in LabelIndex : p < q /\ ~labels[p].drawn /\ labels[q].drawn /\ Near(p, q)

\* the lane of the item a date label belongs to, and the y of its node
LabelLane(p) == items[PositionOf(labels[p].id)].lane
LabelNodeY(p) == bars[PositionOf(labels[p].id)].y
\* smaller y is higher on the canvas
LabelAboveNode(p) == labels[p].y < LabelNodeY(p)
LabelBelowNode(p) == labels[p].y > LabelNodeY(p)

\* C13 as stated: the start and end labels of an interval on the baseline
\* (lane 0) or below it (even lane) are below its node, those of an interval
\* above the baseline (odd lane) are above its node.
C13_AsStated ==
    Rendered =>
        \A p \in LabelIndex :
            /\ LabelLane(p) % 2 = 0 => LabelBelowNode(p)
            /\ LabelLane(p) % 2 = 1 => LabelAboveNode(p)

\* C13 amended: the start and end labels of an interval are above its node
\* when it is on the baseline (lane 0) and below its node in every other
\* lane; the label block (company, title) is the one that follows the lane
\* direction: below the node for lane 0 and the even lanes, above the node
\* for the odd lanes.
C13_LabelAnchor ==
    Rendered =>
        /\ \A p \in LabelIndex :
              /\ LabelLane(p) = 0 => LabelAboveNode(p)
              /\ LabelLane(p) > 0 => LabelBelowNode(p)
        /\ \A k \in ItemIndex :
              /\ bars[k].y = laneToY(items[k].lane, canvas.baselineY.val)
              /\ items[k].lane % 2 = 0 => bars[k].topY > bars[k].y
              /\ items[k].lane % 2 = 1 =>
                    bars[k].topY + lineHeight < bars[k].y /\ bars[k].y < canvas.baselineY.val

\* intervals on the baseline, above it and below it, each with a date label
C13_Witness ==
    /\ Rendered
    /\ \A l \in 0..2 : \E p \in LabelIndex : LabelLane(p) = l

\* the labels drawn
DrawnLabels == {p \in LabelIndex : labels[p].drawn}
StartLabels == SelectSeq([p \in LabelIndex |-> p], LAMBDA p : labels[p].which = "start")
EndLabels == SelectSeq([p \in LabelIndex |-> p], LAMBDA p : labels[p].which = "end")

\* the labels drawn when the labels are taken in the given order against one
\* running set: D the labels drawn among the first k - 1
RECURSIVE DrawnIn(_, _, _)
DrawnIn(order, k, D) ==
    IF k > Len(order) THEN D
    ELSE IF \E q \in D : Near(order[k], q) THEN DrawnIn(order, k + 1, D)
    ELSE DrawnIn(order, k + 1, D \cup {order[k]})

\* C14 as stated: the start labels are placed in one pass over the intervals
\* and the end labels in another, both against one running set that starts
\* empty in each render.
C14_AsStated ==
    Rendered => DrawnLabels = DrawnIn(StartLabels \o EndLabels, 1, {})

\* the labels of one pass over the items from the k-th on: the start label of
\* each item, then its end label when it has an end
RECURSIVE LabelKeysFrom(_)
LabelKeysFrom(k) ==
    IF k > Len(items) THEN <<>>
    ELSE <<[id |-> items[k].id, which |-> "start"]>>
            \o (IF items[k].end # Null
                THEN <<[id |-> items[k].id, which |-> "end"]>> ELSE <<>>)
            \o LabelKeysFrom(k + 1)

\* C14 amended: start and end labels are placed in a single pass over the
\* intervals in processing order (the start label of an interval, then its end
\* label), each tested on its own against one running set shared by both kinds;
\* the set starts empty in each render, so the first label of a render is
\* always drawn and a repeated render draws the same labels.
C14_SinglePassSharedSet ==
    Rendered =>
        /\ [p \in LabelIndex |-> [id |-> labels[p].id, which |-> labels[p].which]]
              = LabelKeysFrom(1)
        /\ DrawnLabels = DrawnIn([p \in LabelIndex |-> p], 1, {})
        /\ Len(labels) >= 1 => labels[1].drawn
        /\ run = 2 => labels = prev.labels

\* a repeated render in which the end label of one interval is drawn and
\* keeps the start label of a later interval, in another lane, from being
\* drawn
C14_Witness ==
    /\ Rendered
    /\ run = 2
    /\ \E p, q \in LabelIndex :
          /\ p < q
          /\ labels[p].which = "end" /\ labels[p].drawn
          /\ labels[q].which = "start" /\ ~labels[q].drawn
          /\ Near(p, q)
          /\ labels[p].y # labels[q].y
          /\ \A r \in DrawnLabels \ {p} : ~Near(r, q)

\* the animationTotalDuration of the render
TotalDuration == CallDuration(outcome.caller)
\* pct per cent of r
PerCent(r, pct) == Rat(r.num * pct, r.den * 100)

N == Len(items)

\* C16: for N >= 1 items in processing order item i (from 0) has the delay
\* 0.25 T + i * (0.75 T / N); for N = 0 there is no per-item delay and nothing
\* is divided by zero. With T = 10 s and N = 4 the slot is 1.875 s, delay[0] is
\* 2.5 s and delay[2] is 6.25 s.
C16_ItemDelays ==
    Rendered =>
        /\ Len(bars) = N
        /\ timing.durationPerJob.den > 0
        /\ N >= 1 =>
              /\ RatEq(timing.durationPerJob, RatDivInt(PerCent(TotalDuration, 75), N))
              /\ \A k \in 1..N :
                    /\ bars[k].id = items[k].id
                    /\ bars[k].delay.den > 0
                    /\ RatEq(bars[k].delay,
                             RatAdd(PerCent(TotalDuration, 25),
                                    RatTimesInt(RatDivInt(PerCent(TotalDuration, 75), N),
                                                k - 1)))
        /\ (TotalDuration = RatOfInt(10) /\ N = 4) =>
              /\ RatEq(timing.durationPerJob, Rat(1875, 1000))
              /\ RatEq(bars[1].delay, Rat(25, 10))
              /\ RatEq(bars[3].delay, Rat(625, 100))

\* four items rendered with a total duration of 10 s
C16_Witness ==
    /\ Rendered
    /\ TotalDuration = RatOfInt(10)
    /\ N = 4
    /\ RatEq(bars[3].delay, Rat(625, 100))

\* no item: the generator called on a CSV without data row
C16_NoItems == Rendered /\ N = 0 /\ bars = <<>>

\* the duration of the reveal animations of an item (bar, connectors, node,
\* texts): ${jobPartAnimDuration}s in the style sheet
revealDuration == timing.jobPartAnimDuration

\* C17: the reveal animation of an item lasts half of its slot,
\* (0.75 T / N) * 0.5, and the closing connector of an item starts at
\* delay[i] + revealDuration, the instant at which the reveal that started at
\* delay[i] completes.
C17_RevealAndClosing ==
    Rendered =>
        /\ N >= 1 =>
              RatEq(revealDuration,
                    RatDivInt(RatDivInt(PerCent(TotalDuration, 75), N), 2))
        /\ \A k \in 1..Len(bars) :
              /\ bars[k].hasClosingConnector
                    <=> (items[k].end # Null \/ bars[k].y # canvas.baselineY.val)
              /\ bars[k].hasClosingConnector =>
                    /\ RatEq(bars[k].closingConnectorDelay,
                             RatAdd(bars[k].delay, revealDuration))
                    /\ RatEq(RatSub(bars[k].closingConnectorDelay, bars[k].delay),
                             RatDivInt(RatDivInt(PerCent(TotalDuration, 75), N), 2))
        /\ (TotalDuration = RatOfInt(10) /\ N = 4) =>
              RatEq(revealDuration, Rat(9375, 10000))

\* four items in 10 s: the third, an ended one, closes at 6.25 + 0.9375 s
C17_Witness ==
    /\ Rendered
    /\ TotalDuration = RatOfInt(10)
    /\ N = 4
    /\ bars[3].hasClosingConnector
    /\ RatEq(bars[3].closingConnectorDelay, Rat(71875, 10000))

\* computePathLength has returned
PathMeasured == rawPathLength # Undefined
\* the lengths a segment of the inputs can have: eighths
LengthBound == 64
Lengths == {Rat(k, 8) : k \in 0..LengthBound}
\* the d >= 0 with d * d = dx * dx + dy * dy
Distance(p, q) ==
    CHOOSE d \in Lengths :
        RatEq(RatMul(d, d),
              RatAdd(RatMul(RatSub(q.x, p.x), RatSub(q.x, p.x)),
                     RatMul(RatSub(q.y, p.y), RatSub(q.y, p.y))))
RECURSIVE SegmentSum(_)
SegmentSum(k) ==
    IF k < 2 THEN RatOfInt(0)
    ELSE RatAdd(SegmentSum(k - 1), Distance(points[k - 1], points[k]))
EuclideanLength == SegmentSum(Len(points))
Coincident == \A i, j \in 1..Len(points) : points[i] = points[j]
TrianglePath ==
    <<Point(RatOfInt(0), RatOfInt(0)), Point(RatOfInt(3), RatOfInt(4)),
      Point(RatOfInt(3), RatOfInt(0))>>
\* C18: computePathLength returns the sum of the Euclidean lengths of the
\* consecutive segments of the polyline, and 1 whenever that sum is below 1
\* (fewer than two points, all points coincident); (0,0) -> (3,4) -> (3,0)
\* gives 5 + 4 = 9.
C18_PathLength ==
    PathMeasured =>
        /\ rawPathLength.den > 0
        /\ ~RatLess(EuclideanLength, RatOfInt(1)) => RatEq(rawPathLength, EuclideanLength)
        /\ RatLess(EuclideanLength, RatOfInt(1)) => RatEq(rawPathLength, RatOfInt(1))
        /\ (Len(points) < 2 \/ Coincident) => RatEq(rawPathLength, RatOfInt(1))
        /\ points = TrianglePath => RatEq(rawPathLength, RatOfInt(9))

\* the triangle path measured: 9
C18_Witness ==
    /\ PathMeasured
    /\ points = TrianglePath
    /\ RatEq(rawPathLength, RatOfInt(9))
\* a path of two distinct points shorter than 1, floored to 1
C18_Floored ==
    /\ PathMeasured
    /\ Len(points) = 2
    /\ ~Coincident
    /\ RatEq(EuclideanLength, Rat(5, 8))
    /\ RatEq(rawPathLength, RatOfInt(1))

\* niceYTicks has returned
TicksMade == ticksCalls >= 1
\* step = max(1, ceil(max / (targetCount - 1)))
ClaimedStep ==
    LET c == CHOOSE q \in 0..maxCount :
                 /\ q * (targetTicks - 1) >= maxCount
                 /\ (q - 1) * (targetTicks - 1) < maxCount
    IN  IF c >= 1 THEN c ELSE 1
\* the ticks made by stepping: all of them but an appended last one
Stepped(k) == yTicks[k] = (k - 1) * ClaimedStep

\* C20: for max >= 0 and a target tick count niceYTicks returns a strictly
\* ascending sequence that starts with 0, whose stepped ticks are step =
\* max(1, ceil(max / (targetCount - 1))) apart, and that ends with exactly
\* max, appended only when the stepped ticks do not land on it; a second call
\* with the same arguments returns the same sequence.
C20_NiceTicks ==
    TicksMade =>
        LET n == Len(yTicks) IN
        /\ n >= 1
        /\ yTicks[1] = 0
        /\ yTicks[n] = maxCount
        /\ \A k \in 1..(n - 1) : yTicks[k] < yTicks[k + 1]
        /\ \A k \in 1..(n - 1) : Stepped(k)
        /\ \/ Stepped(n)
           \/ /\ maxCount % ClaimedStep # 0
              /\ maxCount - yTicks[n - 1] < ClaimedStep
        /\ maxCount % ClaimedStep = 0 => Stepped(n)
        /\ ticksCalls = 2 => yTicks = prevTicks
        /\ (maxCount = 5 /\ targetTicks = 5) => yTicks = <<0, 2, 4, 5>>
        /\ (maxCount = 8 /\ targetTicks = 5) => yTicks = <<0, 2, 4, 6, 8>>
        /\ maxCount = 0 => yTicks = <<0>>

\* max 5 with the default count: the ticks 0, 2, 4 and the appended 5,
\* returned a second time
C20_Witness ==
    /\ ticksCalls = 2
    /\ maxCount = 5
    /\ targetTicks = 5
    /\ yTicks = <<0, 2, 4, 5>>
    /\ prevTicks = yTicks
\* max 8 with the default count: the stepped ticks land on max
C20_Lands == TicksMade /\ maxCount = 8 /\ targetTicks = 5 /\ Len(yTicks) = 5

\* the jobs drawn on the baseline: their connectors are straight lines
OnBaseline(k) == bars[k].y = canvas.baselineY.val

\* C19: for the baseline and each connecting line of the timeline the dash
\* length of the draw-in animation equals the Euclidean length of the
\* element's path.
C19_DashIsPathLength ==
    Rendered =>
        /\ baselineDashArray = baselineLineLength
        /\ \A k \in 1..Len(bars) :
              OnBaseline(k) => connectorDashArray = ConnectorLineLength(bars[k].y)

\* ceil(k / 2): the least p with 2 p >= k
PairIndex(k) == CHOOSE p \in 0..k : 2 * p >= k /\ 2 * (p - 1) < k

\* C21: lane 0 is on the baseline; lane k > 0 lies ceil(k / 2) * heightPerLane
\* from the baseline, upward (smaller y) for odd k and downward for even k.
C21_LaneToY ==
    Rendered =>
        \A k \in 1..Len(bars) :
            LET lane == items[k].lane
                y == bars[k].y
                baselineY == canvas.baselineY.val
            IN  /\ lane = 0 => y = baselineY
                /\ (lane > 0 /\ lane % 2 = 1) =>
                      baselineY - y = PairIndex(lane) * heightPerLane
                /\ (lane > 0 /\ lane % 2 = 0) =>
                      y - baselineY = PairIndex(lane) * heightPerLane

\* three overlapping items: lane 1 one lane height above the baseline and
\* lane 2 one lane height below it
C21_Witness ==
    /\ Rendered
    /\ \E j, k \in 1..Len(bars) :
          /\ items[j].lane = 1
          /\ bars[j].y = canvas.baselineY.val - heightPerLane
          /\ items[k].lane = 2
          /\ bars[k].y = canvas.baselineY.val + heightPerLane

\* C22: logo retrieval never blocks a render indefinitely and never fails
\* it: a logo whose fetch errors, is missing or is slow resolves to "no logo"
\* within a bounded time, after which the render completes.
C22_RenderCompletes == (pc = "fetching") ~> Rendered

\* a fetch of the render has not settled
SomePending == \E k \in 1..Len(logoData) : logoData[k] = Pending
\* the trimmed logo column of the row an item was parsed from
LogoOfRow(id) == Trim(Field(rows[id + 1], "logo"))
\* the items that have a logo image, in processing order
RECURSIVE WithLogoFrom(_)
WithLogoFrom(k) ==
    IF k > Len(items) THEN <<>>
    ELSE (IF logoData[k] # Null THEN <<k>> ELSE <<>>) \o WithLogoFrom(k + 1)

-----------------------------------------------------------------------------
(* The HTTP API: api.js, the v1 handlers, validation.js, cache.js *)

\* a query parameter that is present; an absent one is Undefined
Str(s) == [type |-> "string", of |-> s]
\* the truthiness of a query parameter: absent and empty are falsy
Truthy(v) == v # Undefined /\ v.of # <<>>

Letters ==
    {"a", "b", "c", "d", "e", "f", "g", "h", "i", "j", "k", "l", "m",
     "n", "o", "p", "q", "r", "s", "t", "u", "v", "w", "x", "y", "z",
     "A", "B", "C", "D", "E", "F", "G", "H", "I", "J", "K", "L", "M",
     "N", "O", "P", "Q", "R", "S", "T", "U", "V", "W", "X", "Y", "Z"}
AlphaNum == Letters \cup Digits

\* /^[a-zA-Z0-9]([a-zA-Z0-9-]{0,37}[a-zA-Z0-9])?$/.test(u)
usernameRegexTest(u) ==
    /\ Len(u) >= 1
    /\ Len(u) <= 39
    /\ u[1] \in AlphaNum
    /\ u[Len(u)] \in AlphaNum
    /\ \A i \in 2..(Len(u) - 1) : u[i] \in AlphaNum \cup {"-"}

\* validateUsername: "ok" or the message thrown
validateUsername(username) ==
    IF ~Truthy(username) THEN "Username is required"
    ELSE IF ~usernameRegexTest(username.of) THEN "Invalid GitHub username format"
    ELSE "ok"

\* String.prototype.split(":")
RECURSIVE SplitColonFrom(_, _, _)
SplitColonFrom(s, i, piece) ==
    IF i > Len(s) THEN <<piece>>
    ELSE IF s[i] = ":" THEN <<piece>> \o SplitColonFrom(s, i + 1, <<>>)
    ELSE SplitColonFrom(s, i + 1, Append(piece, s[i]))

\* /^\d{4}-\d{2}-\d{2}$/.test(s)
fullDateRegexTest(s) ==
    /\ Len(s) = 10
    /\ IsDigits(s, 1, 4) /\ s[5] = "-" /\ IsDigits(s, 6, 7)
    /\ s[8] = "-" /\ IsDigits(s, 9, 10)

\* new Date("YYYY-MM-DD").getTime() in days, for a date of the calendar
DateOfISO(s) ==
    DaysFromCivil(ParseInt(SubSeq(s, 1, 4)).val, ParseInt(SubSeq(s, 6, 7)).val)
        + ParseInt(SubSeq(s, 9, 10)).val - 1

maxRangeDays == 365

\* validateDateRange: the two date strings, or the message thrown
validateDateRange(range) ==
    LET parts == SplitColonFrom(range, 1, <<>>)
    IN  IF Len(parts) # 2
        THEN [ok |-> FALSE, message |-> "Date range must be in format YYYY-MM-DD:YYYY-MM-DD"]
        ELSE IF ~fullDateRegexTest(parts[1]) \/ ~fullDateRegexTest(parts[2])
        THEN [ok |-> FALSE, message |-> "Dates must be in format YYYY-MM-DD"]
        ELSE IF DateOfISO(parts[1]) > DateOfISO(parts[2])
        THEN [ok |-> FALSE, message |-> "Start date must be before end date"]
        ELSE IF DateOfISO(parts[2]) - DateOfISO(parts[1]) > maxRangeDays
        THEN [ok |-> FALSE, message |-> "Date range cannot exceed 365 days"]
        ELSE [ok |-> TRUE, startDateStr |-> parts[1], endDateStr |-> parts[2]]

\* String(v) inside a template literal
StrUndefinedWord == <<"u", "n", "d", "e", "f", "i", "n", "e", "d">>
StrDefaultWord == <<"d", "e", "f", "a", "u", "l", "t">>
StrMostStarred == <<"m", "o", "s", "t", "-", "s", "t", "a", "r", "r", "e", "d">>
StrExperienceTimeline ==
    <<"e", "x", "p", "e", "r", "i", "e", "n", "c", "e", "-",
      "t", "i", "m", "e", "l", "i", "n", "e">>
TemplateString(v) == IF v = Undefined THEN Str(StrUndefinedWord) ELSE v

\* a decoded experienceCSV parameter, by its rows
Csv(rs) == [type |-> "csv", rows |-> rs]
\* JSON.stringify(cacheKeyOptions), by the options
Json(opts) == [type |-> "json", opts |-> opts]

\* generateCacheKey(username, startDate, endDate): the template
\* `timeseries-history:${username}:${startDate}:${endDate}` of the first three
\* arguments, by its parts; further arguments are not read
generateCacheKey(args) ==
    <<"timeseries-history">> \o [i \in 1..3 |-> TemplateString(args[i])]

\* the LRU cache: max entries (CACHE_MAX_SIZE), least recently used first
MaxCacheSize == 2
CacheHas(c, key) == \E i \in 1..Len(c) : c[i].key = key
CacheEntry(c, key) == c[CHOOSE i \in 1..Len(c) : c[i].key = key]
CacheWithout(c, key) == SelectSeq(c, LAMBDA e : e.key # key)
\* cache.get(key): the body, or undefined
cacheGet(c, key) == IF CacheHas(c, key) THEN CacheEntry(c, key).body ELSE Undefined
\* the cache after a cache.get(key): the entry becomes the most recent one
cacheTouch(c, key) ==
    IF CacheHas(c, key) THEN Append(CacheWithout(c, key), CacheEntry(c, key)) ELSE c
\* the cache after cache.set(key, body): the least recent entry is evicted
\* when the cache is over its size
cacheSet(c, key, body) ==
    LET d == Append(CacheWithout(c, key), [key |-> key, body |-> body])
    IN  IF Len(d) > MaxCacheSize THEN Tail(d) ELSE d

\* responses
ErrorResponse(e) ==
    [status |-> e.status, xcache |-> "none",
     body |-> [kind |-> "error", message |-> e.message]]
SvgResponse(xcache, body) == [status |-> 200, xcache |-> xcache, body |-> body]
OptionsResponse == [status |-> 204, xcache |-> "none", body |-> [kind |-> "empty"]]

\* what a handler does up to its first await
Answer(resp) == [kind |-> "answer", response |-> resp]
\* the rest of a handler from its cache lookup on: the cached body, or the
\* token check of the GitHub endpoints, then the generator
Lookup(r, key, gen, needsToken) ==
    IF cacheGet(cache, key) # Undefined
    THEN [kind |-> "hit", key |-> key,
          response |-> SvgResponse("HIT", cacheGet(cache, key))]
    ELSE IF needsToken /\ ~githubToken
    THEN Answer(ErrorResponse(handleError(
             "GITHUB_TOKEN environment variable is not configured")))
    ELSE [kind |-> "await", pending |-> [request |-> r, key |-> key, gen |-> gen]]

\* a lock check that lets a supplied userName override the locked user
ResolveUserUnlocked(r) ==
    IF ~Truthy(r.userName)
    THEN IF Truthy(lockedUser) THEN [ok |-> TRUE, username |-> lockedUser]
         ELSE [ok |-> FALSE, error |-> createValidationErrorSVG(
                                  "userName query parameter is required")]
    ELSE [ok |-> TRUE, username |-> r.userName]
\* the LOCK_GITHUB_USER check of the user handlers: the user to work for, or
\* the error answered
ResolveUser(r) ==
    IF Truthy(lockedUser)
    THEN IF Truthy(r.userName)
         THEN [ok |-> FALSE, error |-> createForbiddenSVG(
                  "Username parameter is not allowed when LOCK_GITHUB_USER is configured")]
         ELSE [ok |-> TRUE, username |-> lockedUser]
    ELSE IF ~Truthy(r.userName)
         THEN [ok |-> FALSE, error |-> createValidationErrorSVG(
                  "userName query parameter is required")]
         ELSE [ok |-> TRUE, username |-> r.userName]

StrRadical == <<"r", "a", "d", "i", "c", "a", "l">>
StrDark == <<"d", "a", "r", "k">>
defaultWidth == 1200

\* an SVG generated for the parameters gen
Widget(gen) == [kind |-> "widget", for |-> gen]
\* the error card generateMostStarredSVG returns from its catch block
ErrorCard(message) == [kind |-> "errorCard", message |-> message]

\* what each handler passes to its generator
TimeseriesGen(username, r) ==
    [endpoint |-> "timeseries-history", username |-> username,
     range |-> IF Truthy(r.range) THEN r.range ELSE Undefined]
MostStarredGen(username, r) ==
    [endpoint |-> "most-starred", username |-> username,
     top |-> ParseInt((IF r.top = Undefined THEN Str(<<"3">>) ELSE r.top).of),
     theme |-> IF r.theme = Undefined THEN Str(StrRadical) ELSE r.theme]
\* parseInt(widthStr, 10) || 1200
WidthOf(r) ==
    IF r.width = Undefined THEN defaultWidth
    ELSE IF IsNum(ParseInt(r.width.of)) /\ ParseInt(r.width.of).val # 0
    THEN ParseInt(r.width.of).val
    ELSE defaultWidth
ExperienceGen(r) ==
    [endpoint |-> "experience-timeline", rows |-> r.experienceCSV.rows,
     width |-> WidthOf(r)]

\* timeseries-history.js handler, up to its await
timeseriesHistoryHandler(r) ==
    LET u == ResolveUser(r)
    IN  IF ~u.ok THEN Answer(ErrorResponse(u.error))
        ELSE IF validateUsername(u.username) # "ok"
        THEN Answer(ErrorResponse(createValidationErrorSVG(validateUsername(u.username))))
        ELSE IF Truthy(r.range) /\ ~validateDateRange(r.range.of).ok
        THEN Answer(ErrorResponse(createValidationErrorSVG(
                 validateDateRange(r.range.of).message)))
        ELSE LET startKey == IF Truthy(r.range)
                             THEN Str(validateDateRange(r.range.of).startDateStr)
                             ELSE Str(StrDefaultWord)
                 endKey == IF Truthy(r.range)
                           THEN Str(validateDateRange(r.range.of).endDateStr)
                           ELSE Str(StrDefaultWord)
             IN  Lookup(r, generateCacheKey(<<u.username, startKey, endKey>>),
                        TimeseriesGen(u.username, r), TRUE)

\* most-starred.js handler, up to its await; title and animationDuration are
\* absent from the requests considered
mostStarredHandler(r) ==
    LET u == ResolveUser(r)
        gen == MostStarredGen(u.username, r)
    IN  IF ~u.ok THEN Answer(ErrorResponse(u.error))
        ELSE IF validateUsername(u.username) # "ok"
        THEN Answer(ErrorResponse(createValidationErrorSVG(validateUsername(u.username))))
        ELSE IF ~IsNum(gen.top) \/ gen.top.val < 1 \/ gen.top.val > 10
        THEN Answer(ErrorResponse(createValidationErrorSVG(
                 "top must be a number between 1 and 10")))
        ELSE Lookup(r, generateCacheKey(<<Str(StrMostStarred), r.userName,
                                          IF r.top = Undefined THEN Str(<<"3">>) ELSE r.top,
                                          Undefined, gen.theme, Undefined>>),
                    gen, TRUE)

\* experience-timeline.js handler, up to its await
experienceTimelineHandler(r) ==
    IF r.experienceCSV = Undefined
    THEN Answer(ErrorResponse(createValidationErrorSVG(
             "experienceCSV query parameter is required")))
    ELSE IF validateExperienceCSV(r.experienceCSV.rows) # "ok"
    THEN Answer(ErrorResponse(createValidationErrorSVG(
             validateExperienceCSV(r.experienceCSV.rows))))
    ELSE Lookup(r, generateCacheKey(<<Str(StrExperienceTimeline), r.experienceCSV,
                                      Json([width |-> WidthOf(r)])>>),
                ExperienceGen(r), FALSE)

\* api.js routeV1
routeV1(r) ==
    CASE r.endpoint = "timeseries-history.svg" -> timeseriesHistoryHandler(r)
      [] r.endpoint = "experience-timeline.svg" -> experienceTimelineHandler(r)
      [] r.endpoint = "most-starred.svg" -> mostStarredHandler(r)
      [] OTHER -> Answer(ErrorResponse(createNotFoundSVG("Endpoint")))

\* api.js handler on a request whose path has the version and endpoint given;
\* the version "" stands for a path without one
apiHandler(r) ==
    IF r.method = "OPTIONS" THEN Answer(OptionsResponse)
    ELSE IF r.method # "GET" THEN Answer(ErrorResponse(createNotFoundSVG("Method")))
    ELSE IF r.version = "" THEN Answer(ErrorResponse(createNotFoundSVG("API version")))
    ELSE IF r.version = "v1" THEN routeV1(r)
    ELSE Answer(ErrorResponse(createNotFoundSVG("API version")))

\* what GitHub answers a generator
UpstreamOutcomes(gen) ==
    IF gen.endpoint = "experience-timeline" THEN {"ok"}
    ELSE {"ok", "userNotFound", "apiError"}
UpstreamMessage(o) ==
    IF o = "userNotFound" THEN "User \"${username}\" not found"
    ELSE "GitHub API HTTP ${res.status}: ${text}"

Svg(body) == [kind |-> "svg", body |-> body]
Throw(message) == [kind |-> "thrown", message |-> message]

\* generateActivitySVG: the chart, or the error of the GitHub call thrown
generateActivitySVG(gen, o) ==
    IF o = "ok" THEN Svg(Widget(gen)) ELSE Throw(UpstreamMessage(o))
\* generateMostStarredSVG: the cards, or from its catch block an error card
\* returned as the SVG
generateMostStarredSVG(gen, o) ==
    IF o = "ok" THEN Svg(Widget(gen)) ELSE Svg(ErrorCard(UpstreamMessage(o)))
\* generateExperienceTimeline: the timeline, or the error of rows.map thrown
generateExperienceTimelineSVG(gen) ==
    IF ParseItems(gen.rows).ok THEN Svg(Widget(gen))
    ELSE Throw("Invalid start date in row")
generateFor(gen, o) ==
    CASE gen.endpoint = "timeseries-history" -> generateActivitySVG(gen, o)
      [] gen.endpoint = "most-starred" -> generateMostStarredSVG(gen, o)
      [] gen.endpoint = "experience-timeline" -> generateExperienceTimelineSVG(gen)

\* requests
Request(method, version, endpoint) ==
    [method |-> method, version |-> version, endpoint |-> endpoint,
     userName |-> Undefined, range |-> Undefined, top |-> Undefined,
     theme |-> Undefined, experienceCSV |-> Undefined, width |-> Undefined]

UserOc == <<"o", "c">>
UserGh == <<"g", "h">>
UserBad == <<"o", "-">>
StrRange == Str2020_01_02 \o <<":">> \o Str2020_08_16
StrRangeReversed == Str2020_08_16 \o <<":">> \o Str2020_01_02
\* a user name and a range whose timeseries key reads like a most-starred one
StrYear4 == <<"0", "0", "0", "4", "-", "0", "6", "-", "0", "1">>
StrYear5 == <<"0", "0", "0", "5", "-", "0", "1", "-", "0", "1">>

\* requests that the router answers itself
RouteRequests ==
    {Request("OPTIONS", "v1", "most-starred.svg"),
     [Request("POST", "v1", "timeseries-history.svg") EXCEPT !.userName = Str(UserOc)],
     Request("GET", "", "most-starred.svg"),
     Request("GET", "v2", "most-starred.svg"),
     [Request("GET", "v1", "user-stats.svg") EXCEPT !.userName = Str(UserOc)]}

TimeseriesRequests ==
    {[Request("GET", "v1", "timeseries-history.svg")
          EXCEPT !.userName = q[1], !.range = q[2]] :
        q \in {<<Undefined, Undefined>>, <<Str(<<>>), Undefined>>,
               <<Str(UserOc), Undefined>>, <<Str(UserGh), Undefined>>,
               <<Str(UserBad), Undefined>>, <<Str(UserOc), Str(StrRange)>>,
               <<Str(UserOc), Str(StrRangeReversed)>>,
               <<Str(StrMostStarred), Str(StrYear4 \o <<":">> \o StrYear5)>>}}

MostStarredRequests ==
    {[Request("GET", "v1", "most-starred.svg")
          EXCEPT !.userName = q[1], !.top = q[2], !.theme = q[3]] :
        q \in {<<Undefined, Undefined, Undefined>>,
               <<Str(<<>>), Undefined, Str(StrDark)>>,
               <<Str(UserOc), Undefined, Undefined>>,
               <<Str(UserOc), Undefined, Str(StrDark)>>,
               <<Str(UserOc), Str(<<"5">>), Undefined>>,
               <<Str(UserOc), Str(<<"0">>), Undefined>>,
               <<Str(StrYear4), Str(StrYear5), Undefined>>}}

ExperienceRequests ==
    {[Request("GET", "v1", "experience-timeline.svg")
          EXCEPT !.experienceCSV = q[1], !.width = q[2], !.userName = q[3]] :
        q \in {<<Undefined, Undefined, Undefined>>,
               <<Csv(<<Row(StrCompany, Str2020, StrEmpty)>>), Undefined, Undefined>>,
               <<Csv(<<Row(StrCompany, Str2020, StrEmpty)>>), Str(<<"9", "0", "0">>), Undefined>>,
               <<Csv(<<Row(StrCompany, Str2020, StrEmpty)>>), Undefined, Str(UserGh)>>,
               <<Csv(<<Row(StrCompany, StrAbc, StrEmpty)>>), Undefined, Undefined>>,
               <<Csv(<<Row(StrCompany, Str2020_00, StrEmpty)>>), Undefined, Undefined>>}}

ApiRequests ==
    RouteRequests \cup TimeseriesRequests \cup MostStarredRequests \cup ExperienceRequests

MaxRequests == 2

ApiInit ==
    /\ TimelineInit({<<>>}, {RatOfInt(animationTotalDuration)})
    /\ now = DateUTC(Num(2020), Num(2), Num(1)).val
    /\ embedLogos = TRUE
    /\ ActivityIdle
    /\ lockedUser \in {Undefined, Str(UserOc)}
    /\ githubToken \in BOOLEAN
    /\ cache = <<>>
    /\ inflight = {}
    /\ response = NoResponse
    /\ served = 0

\* a request arrives and its handler runs to its return or to its await
ApiRequest ==
    /\ served < MaxRequests
    /\ \E r \in ApiRequests :
         LET h == apiHandler(r)
         IN  /\ served' = served + 1
             /\ response' = IF h.kind = "await" THEN response
                            ELSE [request |-> r] @@ h.response
             /\ cache' = IF h.kind = "hit" THEN cacheTouch(cache, h.key) ELSE cache
             /\ inflight' = IF h.kind = "await"
                            THEN inflight \cup {[id |-> served + 1] @@ h.pending}
                            ELSE inflight
    /\ UNCHANGED <<lockedUser, githubToken>>
    /\ UNCHANGED timelineVars
    /\ UNCHANGED activityVars

\* a generator returns or throws, and the handler after its await: the SVG
\* is put in the cache and answered 200, the error goes to handleError
ApiComplete ==
    /\ \E p \in inflight :
         \E o \in UpstreamOutcomes(p.gen) :
           LET g == generateFor(p.gen, o)
           IN  /\ inflight' = inflight \ {p}
               /\ cache' = IF g.kind = "svg" THEN cacheSet(cache, p.key, g.body)
                           ELSE cache
               /\ response' = [request |-> p.request]
                                @@ (IF g.kind = "svg" THEN SvgResponse("MISS", g.body)
                                    ELSE ErrorResponse(handleError(g.message)))
    /\ UNCHANGED <<lockedUser, githubToken, served>>
    /\ UNCHANGED timelineVars
    /\ UNCHANGED activityVars

\* an entry of the cache reaches its time to live
CacheExpires ==
    /\ \E i \in 1..Len(cache) :
         cache' = [j \in 1..(Len(cache) - 1) |-> IF j < i THEN cache[j] ELSE cache[j + 1]]
    /\ UNCHANGED <<lockedUser, githubToken, inflight, response, served>>
    /\ UNCHANGED timelineVars
    /\ UNCHANGED activityVars

ApiNext == ApiRequest \/ ApiComplete \/ CacheExpires
ApiSpec == ApiInit /\ [][ApiNext]_vars

-----------------------------------------------------------------------------
(* Properties of the HTTP API *)

Answered == response # NoResponse
UserEndpoints == {"timeseries-history.svg", "most-starred.svg"}
\* the request reaches a handler that works for a GitHub user
ToUserHandler(r) ==
    r.method = "GET" /\ r.version = "v1" /\ r.endpoint \in UserEndpoints
\* a body that shows data of a GitHub user other than u
ForOtherUser(body, u) ==
    /\ body.kind = "widget"
    /\ body.for.endpoint # "experience-timeline"
    /\ body.for.username # u

\* C23 as stated: under the lock every request with a userName parameter is
\* answered 403, and without the lock every request without one is answered 400
C23_AsStated ==
    Answered =>
        /\ Truthy(lockedUser) /\ response.request.userName # Undefined
               => response.status = 403
        /\ ~Truthy(lockedUser) /\ response.request.userName = Undefined
               => response.status = 400

\* C23: under LOCK_GITHUB_USER a GET request to a v1 user endpoint
\* (timeseries-history, most-starred) with a non-empty userName is answered 403
\* without a cache entry served and without a generator started, and every
\* GitHub widget generated, cached or answered is for the locked user; without
\* the lock such a request with no or an empty userName is answered 400
C23_Lock ==
    /\ Truthy(lockedUser) =>
         /\ Answered /\ ToUserHandler(response.request)
                /\ Truthy(response.request.userName)
              => response.status = 403 /\ response.xcache = "none"
         /\ \A p \in inflight :
              p.gen.endpoint # "experience-timeline"
                => p.gen.username = lockedUser /\ ~Truthy(p.request.userName)
         /\ \A i \in 1..Len(cache) : ~ForOtherUser(cache[i].body, lockedUser)
         /\ Answered /\ response.status = 200
              => ~ForOtherUser(response.body, lockedUser)
    /\ ~Truthy(lockedUser) /\ Answered /\ ToUserHandler(response.request)
           /\ ~Truthy(response.request.userName)
         => response.status = 400

\* a widget of the locked user is cached and a request naming a user is refused
C23_Witness ==
    /\ Truthy(lockedUser)
    /\ Answered
    /\ ToUserHandler(response.request)
    /\ Truthy(response.request.userName)
    /\ response.status = 403
    /\ \E i \in 1..Len(cache) :
         /\ cache[i].body.kind = "widget"
         /\ cache[i].body.for.endpoint = "most-starred"
         /\ cache[i].body.for.username = lockedUser

\* C24: every failed request is answered with an error SVG and a status other
\* than 200 that matches its cause, and status 200 is returned only for a
\* successfully generated widget
C24_StatusMatchesCause ==
    Answered =>
        /\ response.status = 200 <=> response.body.kind = "widget"
        /\ response.body.kind = "error" => response.status \in {400, 403, 404, 500}

\* what the handler of a request asks its generator for
RequestGen(r) ==
    CASE r.endpoint = "timeseries-history.svg" ->
             TimeseriesGen(ResolveUser(r).username, r)
      [] r.endpoint = "most-starred.svg" ->
             MostStarredGen(ResolveUser(r).username, r)
      [] r.endpoint = "experience-timeline.svg" -> ExperienceGen(r)

\* C25: requests with the same cache key target the same endpoint and agree on
\* every parameter that changes the SVG, so a response marked X-Cache: HIT
\* carries a body generated for parameters equivalent to its request's
C25_KeyDeterminesWidget ==
    /\ \A p, q \in inflight : p.key = q.key => p.gen = q.gen
    /\ \A p \in inflight : \A i \in 1..Len(cache) :
         p.key = cache[i].key /\ cache[i].body.kind = "widget"
           => cache[i].body.for = p.gen
    /\ Answered /\ response.xcache = "HIT" /\ response.body.kind = "widget"
         => response.body.for = RequestGen(response.request)

\* C26: a cache entry is written only with the SVG of a successful widget
\* generation, so the cache holds no error and no request is served a cached
\* error
C26_CacheHoldsWidgetsOnly ==
    /\ \A i \in 1..Len(cache) : cache[i].body.kind = "widget"
    /\ Answered /\ response.xcache = "HIT" => response.body.kind = "widget"

-----------------------------------------------------------------------------
(* Validator and parser; lanes and stages *)

\* C27: every CSV that validateExperienceCSV accepts is accepted by the
\* generator's parser: each data row yields a start with a valid instant, and
\* the generator throws no invalid-start error on a validated request
C27_ValidatedInputParses ==
    (Done /\ outcome.caller = "handler" /\ validateExperienceCSV(rows) = "ok")
        => /\ ParseItems(rows).ok
           /\ outcome.kind = "svg"

\* C28: for the lane count of a layout with at least one item and the lane
\* height in use, distinct lanes have distinct y, the y of every lane lies in
\* the content band [margin.top, margin.top + contentHeight], the baseline is
\* the centre of the band, and every bar is drawn at the y of its lane
C28_LanesInBand ==
    (Rendered /\ Len(items) >= 1) =>
        LET laneCount == canvas.laneCount.val
            contentHeight == canvas.contentHeight.val
            baselineY == canvas.baselineY.val
            Lanes == 0..(laneCount - 1)
        IN  /\ heightPerLane > 0
            /\ \A a, b \in Lanes :
                 a # b => laneToY(a, baselineY) # laneToY(b, baselineY)
            /\ \A a \in Lanes :
                 /\ laneToY(a, baselineY) >= marginTop
                 /\ laneToY(a, baselineY) <= marginTop + contentHeight
            /\ 2 * baselineY = 2 * marginTop + contentHeight
            /\ \A k \in 1..Len(bars) :
                 /\ items[k].lane \in Lanes
                 /\ bars[k].y = laneToY(items[k].lane, baselineY)

\* a layout with lanes on both sides of the baseline
C28_Witness ==
    /\ Rendered
    /\ canvas.laneCount = Num(3)
    /\ \E k \in 1..Len(bars) : bars[k].y < canvas.baselineY.val
    /\ \E k \in 1..Len(bars) : bars[k].y > canvas.baselineY.val

\* the instants at which the reveal and the closing connector of the k-th item
\* in processing order complete
RevealEnd(k) == RatAdd(bars[k].delay, revealDuration)
ClosingEnd(k) == RatAdd(bars[k].closingConnectorDelay, revealDuration)

=============================================================================
